------------------------------ MODULE MCSessions ------------------------------
(***************************************************************************)
(* Small instances of Sessions, Accounts and Guests, which share no        *)
(* variable: a behaviour takes the steps of one of them.                   *)
(***************************************************************************)
EXTENDS Sessions, Accounts, Guests, TLC

CONSTANTS
    t1, t2, c1, c2,
    Concerns   \* bound: what behaviours are about

VARIABLE concern  \* what this one is about

OneTab == (c1 :> t1) @@ (c2 :> t1)
TwoTabs == (c1 :> t1) @@ (c2 :> t2)

\* A role the resort has defined for itself, which may look at guests only.
Viewer == [VIEWER |-> {"GUEST_VIEW"}]

\* Without "guests" the profile is that of any one guest and stays as it is.
Otherwise ==
    /\ guest = [f \in Columns |-> CHOOSE v \in Texts : TRUE]
    /\ roleKey = [m \in Members |-> CHOOSE role \in Grades : TRUE]

MCInit ==
    /\ concern \in Concerns /\ Init /\ AccountsInit /\ GuestsInit
    /\ concern = "guests" \/ Otherwise
MCNext ==
    /\ UNCHANGED concern
    /\ \/ concern = "sessions" /\ Next /\ UNCHANGED <<accountVars, guestVars>>
       \/ concern = "accounts" /\ AccountsNext /\ UNCHANGED <<vars, guestVars>>
       \/ concern = "guests" /\ GuestsNext /\ UNCHANGED <<vars, accountVars>>

\* The fairness of Sessions; there is none in the others.
MCSpec ==
    MCInit /\ [][MCNext]_<<vars, accountVars, guestVars, concern>> /\ Fairness
===============================================================================
