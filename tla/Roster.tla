--------------------------------- MODULE Roster ---------------------------------
(***************************************************************************)
(* What a chat room promises about who is in it: whoever gets in does so   *)
(* once, takes one name at most once and keeps it, and stays until it goes *)
(* of its own accord or the room closes, which somebody's going may cause. *)
(* There are no descriptors, threads or lists here.                        *)
(***************************************************************************)
CONSTANTS Guests, Names, Unnamed

VARIABLES
    status,   \* where each guest is
    called,   \* the names of those who have introduced themselves
    going     \* those who have said that they leave, or are gone

rosterVars == <<status, called, going>>

RosterInit ==
    /\ status = [g \in Guests |-> "outside"]
    /\ called = [g \in Guests |-> Unnamed]
    /\ going = {}

Enter(g) ==
    /\ status[g] = "outside"
    /\ status' = [status EXCEPT ![g] = "inside"]
    /\ UNCHANGED <<called, going>>

Introduce(g, n) ==
    /\ status[g] = "inside"
    /\ status' = [status EXCEPT ![g] = "named"]
    /\ called' = [called EXCEPT ![g] = n]
    /\ UNCHANGED going

SetOff(g) ==
    /\ g \notin going
    /\ going' = going \cup {g}
    /\ UNCHANGED <<status, called>>

Leave(g) ==
    /\ status[g] \in {"inside", "named"} /\ g \in going
    /\ status' = [status EXCEPT ![g] = "left"]
    /\ called' = [called EXCEPT ![g] = Unnamed]
    /\ UNCHANGED going

CloseDown ==
    /\ going # {}
    /\ status' = [g \in Guests |-> "left"]
    /\ called' = [g \in Guests |-> Unnamed]
    /\ UNCHANGED going

RosterNext ==
    \/ CloseDown
    \/ \E g \in Guests : Enter(g) \/ SetOff(g) \/ Leave(g) \/ \E n \in Names : Introduce(g, n)

RosterSpec == RosterInit /\ [][RosterNext]_rosterVars
=============================================================================
