--------------------------- MODULE MCBucketPolicy ---------------------------
(* Small instances of BucketPolicy for TLC: one or two BucketAccess objects, *)
(* user policies of no and of two statements, and a bucket that already      *)
(* has a statement of the user's and one with a legacy managed Sid.          *)
EXTENDS BucketPolicy

CONSTANTS get, put, admin, s1, s2

MCCharacters == {"tosm", "thalassa-objectstorage-manager", "/", "-", ".", "x",
                 "n", "a", "b", "user", "other"}
MCOne == {[ns |-> <<"n">>, name |-> <<"a", ".", "b">>]}
MCTwo == MCOne \cup {[ns |-> <<"n">>, name |-> <<"a">>]}
MCRequests == {[preset |-> "", custom |-> {}],
               [preset |-> "ReadOnly", custom |-> {}],
               [preset |-> "ReadOnly", custom |-> {Blank}],
               [preset |-> "ReadOnly", custom |-> {get, admin}]}
MCOther == {[preset |-> "Admin", custom |-> {}],
            [preset |-> "ReadOnly", custom |-> {put, Blank}]}
Stmt(sid, actions) == [sid |-> sid, actions |-> actions]
MCUserPolicies == {<< >>, <<Stmt(<<"other">>, {get}), Stmt(<<"user">>, {admin})>>}
MCLegacy == <<Stmt(LegacyPrefix \o <<"/", "n">>, {get}), Stmt(<<"user">>, {put})>>
=============================================================================
