----------------------------- MODULE AccessRules -----------------------------
(***************************************************************************)
(* How the server decides a request: the policy rules of                   *)
(* access_control/policies.rs, the member roles and the scopes of service  *)
(* account tokens of access_control/http.rs, and the three copies of the   *)
(* scope rules that the item, the secret and the shared item handlers      *)
(* keep.  All of it is pure, so a behaviour is one question, chosen in the *)
(* initial state, and one step that answers it.  Texts are sequences of    *)
(* characters, because the rules are about what a prefix or a pattern      *)
(* matches.                                                                *)
(***************************************************************************)
EXTENDS Naturals, Sequences, FiniteSets, TLC

LOCAL INSTANCE SequencesExt
LOCAL INSTANCE FiniteSetsExt

CONSTANTS
    Questions,      \* the questions asked, records with the fields VerdictOn uses
    ItemPaths,      \* the item paths a listing is compared with
    Whole           \* "no prefix": a token for the whole vault, a listing of it

VARIABLES question, verdict

accessVars == <<question, verdict>>

-----------------------------------------------------------------------------
(* Texts.                                                                  *)

SplitAt(text, c) ==
    FoldLeft(LAMBDA acc, x : IF x = c THEN Append(acc, <<>>)
                             ELSE [acc EXCEPT ![Len(acc)] = Append(@, x)],
             << <<>> >>, text)

NonEmptyParts(text, c) == SelectSeq(SplitAt(text, c), LAMBDA p : p # <<>>)

TrimSlashes(text) ==
    LET kept == {i \in DOMAIN text : text[i] # "/"}
    IN  IF kept = {} THEN <<>> ELSE SubSeq(text, Min(kept), Max(kept))

EndsWith(text, part) ==
    Len(part) <= Len(text) /\ SubSeq(text, Len(text) - Len(part) + 1, Len(text)) = part

\* The positions >= from where part occurs in text; str::find takes the first.
Occurrences(text, part, from) ==
    {i \in from..(Len(text) - Len(part) + 1) :
        SubSeq(text, i, i + Len(part) - 1) = part}

-----------------------------------------------------------------------------
(* matches_pattern (access_control/http.rs and its copies): the parts      *)
(* between the stars are looked for from left to right.                    *)

\* next = 0: a part was not found.
AdvancePast(value, pattern, scan, part) ==
    LET found == Occurrences(value, part, scan.next)
        lost == \/ scan.next = 0
                \/ found = {}
                \/ scan.first /\ Head(pattern) # "*" /\ Min(found) # 1
    IN  [next |-> IF lost THEN 0 ELSE Min(found) + Len(part), first |-> FALSE]

\* Only the first part is held to its place.
MatchesUnanchored(pattern, value) ==
    LET parts == NonEmptyParts(pattern, "*")
    IN  FoldLeft(LAMBDA acc, part : AdvancePast(value, pattern, acc, part),
                 [next |-> 1, first |-> TRUE], parts).next # 0

MatchesPattern(pattern, value) ==
    LET parts == NonEmptyParts(pattern, "*")
        scan == FoldLeft(LAMBDA acc, part : AdvancePast(value, pattern, acc, part),
                         [next |-> 1, first |-> TRUE], parts)
    IN  \/ parts = <<>>
        \/ /\ scan.next # 0
           /\ Last(pattern) = "*" \/ EndsWith(value, Last(parts))

\* What a pattern means, character by character.
Glob(pattern, value) ==
    LET fits[i \in 1..(Len(pattern) + 1), j \in 1..(Len(value) + 1)] ==
            IF i > Len(pattern) THEN j > Len(value)
            ELSE IF pattern[i] = "*"
                 THEN fits[i + 1, j] \/ (j <= Len(value) /\ fits[i, j + 1])
                 ELSE j <= Len(value) /\ pattern[i] = value[j] /\ fits[i + 1, j + 1]
    IN  fits[1, 1]

-----------------------------------------------------------------------------
(* Scopes of service account tokens.  A scope is its parsed form: the      *)
(* target (a vault by slug or id, a tag, a pattern), an optional prefix    *)
(* and a permission.                                                       *)

\* normalize_prefix of cli/provision.rs and cli/tokens/models.rs: what the
\* command line writes into the scope for a prefix.
EncodedPrefix(prefix) ==
    FlattenSeq([i \in DOMAIN prefix |->
                    IF prefix[i] = "/" THEN <<":", ":">> ELSE <<prefix[i]>>])

\* build_token_spec: one scope per operation, for the whole vault or a prefix.
TokenScope(vaultId, prefix, op) ==
    [target |-> [by |-> "vault", text |-> vaultId],
     prefix |-> IF prefix = Whole THEN Whole ELSE EncodedPrefix(TrimSlashes(prefix)),
     permission |-> op]

\* parse_scope with split_prefix and normalize_prefix: a scope whose prefix is
\* empty is no scope at all.
ParsedScopes(scopes) ==
    {[s EXCEPT !.prefix = IF @ = Whole THEN Whole ELSE TrimSlashes(@)] :
        s \in {t \in scopes : t.prefix = Whole \/ TrimSlashes(t.prefix) # <<>>}}

VaultMatchesScope(vault, target) ==
    CASE target.by = "vault" -> target.text \in {vault.slug, vault.id}
      [] target.by = "tag" -> target.text \in vault.tags
      [] target.by = "pattern" -> MatchesPattern(target.text, vault.slug)

\* scopes_allow_vault.
ScopesAllowVault(scopes, vault) ==
    \E s \in ParsedScopes(scopes) :
        s.permission = "read" /\ VaultMatchesScope(vault, s.target)

PrefixMatch(prefix, path) ==
    \/ prefix = Whole
    \/ TrimSlashes(path) = prefix
    \/ IsPrefix(prefix \o <<"/">>, TrimSlashes(path))

\* The item handlers (items/service.rs).

ItemsScopeAllowsAction(permission, action) ==
    CASE action = "read_history" -> permission \in {"history_read", "read_history", "read_previous"}
      [] action = "read_previous" -> permission = "read_previous"
      [] action \in {"read", "list"} -> permission = "read"
      [] OTHER -> permission = action

ItemsPrefixMatch(prefix, path) == PrefixMatch(prefix, path)

ItemsAllowsPath(scopes, vault, action, path) ==
    \E s \in ParsedScopes(scopes) :
        /\ ItemsScopeAllowsAction(s.permission, action)
        /\ VaultMatchesScope(vault, s.target)
        /\ ItemsPrefixMatch(s.prefix, path)

ItemsScopeMatchesPrefix(s, prefix) ==
    s.prefix = Whole \/ (prefix # Whole /\ ItemsPrefixMatch(s.prefix, prefix))

ItemsAllowsPrefix(scopes, vault, action, prefix) ==
    LET matched == {s \in ParsedScopes(scopes) :
                        /\ ItemsScopeAllowsAction(s.permission, action)
                        /\ VaultMatchesScope(vault, s.target)}
    IN  /\ matched # {}
        /\ prefix # Whole \/ \E s \in matched : s.prefix = Whole
        /\ \E s \in matched : ItemsScopeMatchesPrefix(s, prefix)

\* The shared item handlers (vaults/http/v1/shared/helpers.rs).

SharedScopeAllowsAction(permission, action) ==
    CASE action \in {"read", "list"} -> permission = "read"
      [] action = "read_history" -> permission \in {"history_read", "read_history", "read_previous"}
      [] action = "read_previous" -> permission = "read_previous"
      [] OTHER -> permission = action

SharedPrefixMatch(prefix, path) == PrefixMatch(prefix, path)

SharedAllowsPath(scopes, vault, action, path) ==
    \E s \in ParsedScopes(scopes) :
        /\ SharedScopeAllowsAction(s.permission, action)
        /\ VaultMatchesScope(vault, s.target)
        /\ SharedPrefixMatch(s.prefix, path)

SharedScopeMatchesPrefix(s, prefix) ==
    s.prefix = Whole \/ (prefix # Whole /\ SharedPrefixMatch(s.prefix, prefix))

SharedAllowsPrefix(scopes, vault, action, prefix) ==
    LET matched == {s \in ParsedScopes(scopes) :
                        /\ SharedScopeAllowsAction(s.permission, action)
                        /\ VaultMatchesScope(vault, s.target)}
    IN  /\ matched # {}
        /\ prefix # Whole \/ \E s \in matched : s.prefix = Whole
        /\ \E s \in matched : SharedScopeMatchesPrefix(s, prefix)

\* The secret handlers (secrets/service.rs), with their own prefix test.

SecretsScopeAllowsAction(permission, action) ==
    IF action \in {"read", "list"} THEN permission = "read" ELSE permission = action

PrefixMatchesPath(prefix, path) ==
    LET bare == TrimSlashes(prefix)
    IN  TrimSlashes(path) = bare \/ IsPrefix(bare \o <<"/">>, TrimSlashes(path))

SecretsScopeMatchesPath(s, vault, path) ==
    /\ VaultMatchesScope(vault, s.target)
    /\ s.prefix = Whole \/ PrefixMatchesPath(s.prefix, path)

SecretsAllowsPath(scopes, vault, action, path) ==
    \E s \in ParsedScopes(scopes) :
        SecretsScopeAllowsAction(s.permission, action) /\ SecretsScopeMatchesPath(s, vault, path)

-----------------------------------------------------------------------------
(* Roles, rules and the decision.                                          *)

RolePermits(role, action, scope) ==
    CASE role = "admin" -> TRUE
      [] role = "operator" ->
            IF scope \in {"items", "sync"}
            THEN action \in {"read", "list", "write", "read_history", "read_previous",
                             "rotate_start", "rotate_commit", "rotate_abort",
                             "read_candidate", "recover"}
            ELSE action \in {"read", "list"}
      [] role = "member" ->
            IF scope \in {"items", "sync"}
            THEN action \in {"read", "list", "write", "read_history"}
            ELSE action \in {"read", "list"}
      [] role = "readonly" -> action \in {"read", "list", "read_history"}
      [] role = "none" -> FALSE

\* service_account_allows.
ServiceAccountAllows(id, vault, action, scope) ==
    /\ action \in {"read", "list"}
    /\ scope # "members"
    /\ vault.sharedServer
    /\ ScopesAllowVault(id.scopes, vault)

\* vault_role_allows.
VaultRoleAllows(id, vault, action, scope) ==
    IF id.service THEN ServiceAccountAllows(id, vault, action, scope)
    ELSE RolePermits(id.role, action, scope)

MatchesSubject(id, rule) ==
    \/ rule.subject = "any"
    \/ rule.subject = "user" /\ rule.who = id.user
    \/ rule.subject = "group" /\ rule.who \in id.groups
    \/ rule.subject = "device" /\ rule.who = id.device
    \/ rule.subject = "service_account" /\ id.service /\ rule.who = id.account

\* The glob crate matches actions and resources (external); a rule here
\* carries the set of actions and of resources that its globs match.
MatchesRule(id, rule, action, resource) ==
    MatchesSubject(id, rule) /\ action \in rule.actions /\ resource \in rule.resources

Evaluate(rules, id, action, resource) ==
    LET hits == SelectSeq(rules, LAMBDA r : MatchesRule(id, r, action, resource))
    IN  CASE \E k \in DOMAIN hits : hits[k].effect = "deny" -> "deny"
          [] hits # <<>> /\ \A k \in DOMAIN hits : hits[k].effect = "allow" -> "allow"
          [] hits = <<>> -> "no_match"

\* items/service.rs: authorize_vault_access, then the scopes on the path.
ItemsAuthorize(q) ==
    LET decision == Evaluate(q.rules, q.identity, q.action, "items")
    IN  /\ \/ decision = "allow"
           \/ decision = "no_match" /\ VaultRoleAllows(q.identity, q.vault, q.action, "items")
        /\ q.identity.service =>
              ItemsAllowsPath(q.identity.scopes, q.vault, q.action, q.path)

\* secrets/service.rs: authorize_vault_access.
SecretsAuthorize(q) ==
    LET decision == Evaluate(q.rules, q.identity, q.action, "items")
    IN  \/ decision = "allow"
        \/ /\ decision = "no_match"
           /\ IF q.identity.service
              THEN SecretsAllowsPath(q.identity.scopes, q.vault, q.action, q.path)
              ELSE VaultRoleAllows(q.identity, q.vault, q.action, "items")

\* The shared item handlers ask the scopes of a token and no rule.
SharedAuthorize(q) ==
    /\ q.vault.sharedServer
    /\ IF q.identity.service
       THEN SharedAllowsPath(q.identity.scopes, q.vault, q.action, q.path)
       ELSE LET decision == Evaluate(q.rules, q.identity, q.action, "items")
            IN  \/ decision = "allow"
                \/ /\ decision = "no_match"
                   /\ VaultRoleAllows(q.identity, q.vault, q.action, "items")

-----------------------------------------------------------------------------
(* One question, one answer.                                               *)

TheVault == [id |-> <<"v">>, slug |-> <<"s">>, tags |-> {}, sharedServer |-> TRUE]

TokenScopes(q) == {TokenScope(TheVault.id, p, q.op) : p \in q.prefixes}

VerdictOn(q) ==
    CASE q.kind = "token" ->
            [items |-> ItemsAllowsPath(TokenScopes(q), TheVault, q.action, q.path),
             shared |-> SharedAllowsPath(TokenScopes(q), TheVault, q.action, q.path),
             secrets |-> SecretsAllowsPath(TokenScopes(q), TheVault, q.action, q.path)]
      [] q.kind = "listing" ->
            [items |-> ItemsAllowsPrefix(TokenScopes(q), TheVault, "list", q.prefix),
             shared |-> SharedAllowsPrefix(TokenScopes(q), TheVault, "list", q.prefix)]
      [] q.kind = "pattern" -> [matches |-> MatchesPattern(q.pattern, q.slug)]
      [] q.kind = "role" ->
            [r \in {"none", "readonly", "member", "operator", "admin"} |->
                RolePermits(r, q.action, q.scope)]
      [] q.kind = "request" ->
            [items |-> ItemsAuthorize(q),
             shared |-> SharedAuthorize(q),
             secrets |-> SecretsAuthorize(q)]

Unanswered == [kind |-> "unanswered"]

AccessInit == question \in Questions /\ verdict = Unanswered

Decide ==
    /\ verdict = Unanswered
    /\ verdict' = VerdictOn(question)
    /\ UNCHANGED question

Answered(kind) == verdict # Unanswered /\ question.kind = kind

-----------------------------------------------------------------------------
(* Properties.                                                             *)

Segments(text) == NonEmptyParts(text, "/")

\* The path lies at or below the prefix, segment by segment.
Beneath(path, prefix) ==
    prefix = Whole \/ IsPrefix(Segments(TrimSlashes(prefix)), Segments(TrimSlashes(path)))

\* Paths as validate_item_path leaves them: no empty segment.
CleanPath(path) == TrimSlashes(path) = path /\ \A i \in 2..Len(path) :
                        ~(path[i] = "/" /\ path[i - 1] = "/")

\* A token reaches no path outside the prefix it was created for, in none of
\* the three handlers, and a token for a whole vault or for a prefix of one
\* segment reaches every path beneath it (prefix_match and its copies: "ab" is
\* not beneath "a").
TokenStaysInPrefix ==
    Answered("token") /\ CleanPath(question.path) =>
        LET granted == {api \in DOMAIN verdict : verdict[api]}
            reach == \E p \in question.prefixes : Beneath(question.path, p)
            simple == \A p \in question.prefixes :
                        p = Whole \/ Len(Segments(p)) = 1
        IN  /\ granted # {} => reach
            /\ simple /\ reach /\ question.op = "read" /\ question.action = "read"
                  => granted = DOMAIN verdict

\* The copies of the scope rules give the same token the same answer for what
\* all three handlers know: reading and writing a path.
HandlersAgree ==
    Answered("token") /\ question.action \in {"read", "list", "write"} =>
        \A a, b \in DOMAIN verdict : verdict[a] = verdict[b]

\* What a token may list it may read: when the listing under a prefix is
\* granted, get_item grants every item the listing shows.
ListedIsReadable ==
    Answered("listing") =>
        /\ verdict.items = verdict.shared
        /\ verdict.items =>
              \A path \in ItemPaths :
                  PrefixMatch(question.prefix, path) =>
                      ItemsAllowsPath(TokenScopes(question), TheVault, "read", path)

\* A scope means one set of paths to everybody: to the one who asked for it on
\* the command line, to the three handlers, and to listings and single reads.
ScopesAgree == TokenStaysInPrefix /\ HandlersAgree /\ ListedIsReadable

\* matches_pattern, which looks for the parts greedily, is the glob it stands
\* for on every pattern with a star.
PatternIsGlob ==
    Answered("pattern") /\ Contains(question.pattern, "*") =>
        verdict.matches = Glob(question.pattern, question.slug)

\* On items and sync a weaker role is never permitted what a stronger one is
\* refused (role_permits lists each role by itself).
RolesNested ==
    Answered("role") /\ question.scope \in {"items", "sync"} =>
        /\ verdict["none"] => verdict["readonly"]
        /\ verdict["readonly"] => verdict["member"]
        /\ verdict["member"] => verdict["operator"]
        /\ verdict["operator"] => verdict["admin"]

\* The order of the rules in the policy file does not matter to any handler,
\* and a rule that denies is final in the item and the secret handlers
\* whatever the scopes and the role grant.
RuleOrderIrrelevant ==
    Answered("request") =>
        /\ \A f \in Permutations(DOMAIN question.rules) :
              LET other == [question EXCEPT !.rules =
                                [k \in DOMAIN question.rules |-> question.rules[f[k]]]]
              IN  VerdictOn(other) = verdict
        /\ (\E k \in DOMAIN question.rules :
                /\ question.rules[k].effect = "deny"
                /\ MatchesRule(question.identity, question.rules[k], question.action, "items"))
              => ~verdict.items /\ ~verdict.secrets

\* Scopes, patterns, roles and rules decide as they are meant to: a scope is one
\* set of paths to everybody, matches_pattern is the glob, role_permits is
\* monotone, evaluate does not depend on the order.
DecisionsSound == ScopesAgree /\ PatternIsGlob /\ RolesNested /\ RuleOrderIrrelevant

\* A token for a prefix can read the items beneath that prefix, as the
\* documented `provision ensure-token yogg-grafana infra:rlyeh/yogg/grafana read`
\* expects.
TokenReachesPrefix ==
    Answered("token") /\ CleanPath(question.path) /\ question.op = "read" /\ question.action = "read" =>
        ((\E p \in question.prefixes : Beneath(question.path, p)) =>
            \A api \in DOMAIN verdict : verdict[api])

=============================================================================
