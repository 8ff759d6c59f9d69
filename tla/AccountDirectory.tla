-------------------------- MODULE AccountDirectory --------------------------
(***************************************************************************)
(* What the accounts promise.  A person gets an account that nobody has    *)
(* had, and keeps it.  Only a person whose first login was disturbed may   *)
(* find himself with another one, which nobody has had either.             *)
(***************************************************************************)
CONSTANTS people, ids, NoAccount

VARIABLES
  owner,       \* per person the account, or NoAccount
  fresh,       \* the accounts nobody has had, and that can still be given
  disturbed    \* the people whose first login was disturbed

directory == <<owner, fresh, disturbed>>

Init ==
  /\ owner = [p \in people |-> NoAccount]
  /\ fresh = ids
  /\ disturbed = {}

\* p is given the account a; giving it may itself be what was disturbed.
Give(p, a) ==
  /\ owner[p] = NoAccount \/ p \in disturbed
  /\ a \in fresh
  /\ owner' = [owner EXCEPT ![p] = a]
  /\ fresh' = fresh \ {a}
  /\ disturbed' \in {disturbed, disturbed \cup {p}}

\* First logins are disturbed, and accounts lost that nobody was given yet.
Disturb ==
  /\ fresh' \subseteq fresh
  /\ disturbed \subseteq disturbed' /\ disturbed' \subseteq people
  /\ UNCHANGED owner

Next == Disturb \/ \E p \in people, a \in ids : Give(p, a)

Spec == Init /\ [][Next]_directory

=============================================================================
