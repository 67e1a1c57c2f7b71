----------------------------- MODULE MCAccessRules ----------------------------
(* Instance of AccessRules: every text up to the named lengths over two     *)
(* letters, the separator and the star.                                     *)
EXTENDS AccessRules

TextsUpTo(chars, n) == UNION {[1..k -> chars] : k \in 1..n}

Letters == {"a", "b"}
PathTexts == TextsUpTo({"a", "b", "/"}, 4)
PrefixTexts == {Whole} \cup {t \in TextsUpTo({"a", "b", "/"}, 3) : TrimSlashes(t) # <<>>}
ShortPrefixes == {Whole} \cup {t \in TextsUpTo({"a", "b", "/"}, 2) : TrimSlashes(t) # <<>>}
ListingPrefixes == {Whole} \cup ({TrimSlashes(t) : t \in TextsUpTo({"a", "b", "/"}, 3)} \ {<<>>})
ListedPaths == {t \in TextsUpTo({"a", "b", "/"}, 3) : CleanPath(t)}

TokenQuestions ==
    [kind : {"token"}, prefixes : {{p} : p \in PrefixTexts}, op : {"read", "write"},
     action : {"read", "write"}, path : PathTexts]

ListingQuestions ==
    [kind : {"listing"}, prefixes : {{p, q} : p, q \in ShortPrefixes}, op : {"read"},
     prefix : ListingPrefixes]

PatternQuestions ==
    [kind : {"pattern"}, pattern : TextsUpTo(Letters \cup {"*"}, 4), slug : TextsUpTo(Letters, 4)]

RoleQuestions ==
    [kind : {"role"}, scope : {"vault", "items", "members", "sync"},
     action : {"read", "list", "write", "read_history", "read_previous", "rotate_start",
               "rotate_commit", "rotate_abort", "read_candidate", "recover"}]

RuleMenu ==
    {[subject |-> s[1], who |-> s[2], effect |-> e, actions |-> a, resources |-> r] :
        s \in {<<"any", "-">>, <<"user", "u1">>, <<"group", "g1">>, <<"service_account", "t1">>},
        e \in {"allow", "deny"}, a \in {{"read"}, {"read", "write"}}, r \in {{"items"}}}

Identities ==
    {[user |-> "u1", groups |-> g, device |-> "d1", service |-> FALSE, account |-> "-",
      role |-> r, scopes |-> {}] : g \in {{}, {"g1"}}, r \in {"none", "member"}}
    \cup
    {[user |-> "u1", groups |-> {}, device |-> "-", service |-> TRUE, account |-> "t1",
      role |-> "none", scopes |-> s] :
        s \in {{}, {TokenScope(TheVault.id, Whole, "read")},
               {TokenScope(TheVault.id, <<"a">>, "read")}}}

RequestQuestions ==
    [kind : {"request"}, rules : UNION {[1..n -> RuleMenu] : n \in 0..2},
     identity : Identities, action : {"read", "write"}, path : {<<"a">>, <<"b">>},
     vault : {TheVault, [TheVault EXCEPT !.sharedServer = FALSE]}]

AllQuestions ==
    UNION {TokenQuestions, ListingQuestions, PatternQuestions, RoleQuestions, RequestQuestions}

AccessSpec == AccessInit /\ [][Decide]_accessVars

NestedQuestions == {q \in TokenQuestions : q.op = "read" /\ q.action = "read"}
===============================================================================
