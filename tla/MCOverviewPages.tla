-------------------------- MODULE MCOverviewPages --------------------------
EXTENDS OverviewPages, TLC

CONSTANTS every, some, t1

(* Two pages of everything, one of what is searched for; the type has no rows *)
(* in the narrower scope.  Then rows leave, and everything has one page, while *)
(* what is searched for grows to two.                                         *)
MCTotal ==
    (0 :> ((<<every, AnyType>> :> 5) @@ (<<every, t1>> :> 2)
           @@ (<<some, AnyType>> :> 2) @@ (<<some, t1>> :> 0)))
 @@ (1 :> ((<<every, AnyType>> :> 3) @@ (<<every, t1>> :> 0)
           @@ (<<some, AnyType>> :> 4) @@ (<<some, t1>> :> 0)))
============================================================================
