------------------------------- MODULE FileStore -------------------------------
(***************************************************************************)
(* What the file server promises to users who keep apart: every request is *)
(* carried out once, in one step, between being made and being answered,   *)
(* and a download is answered with all that was uploaded last.  The last   *)
(* request of a user who is stopped may be carried out, in part, or not.   *)
(* There are no streams, sizes and open files here, and of directories     *)
(* only where a user is.                                                   *)
(***************************************************************************)
EXTENDS Sequences, SequencesExt

CONSTANTS
    Users,
    Requests,    \* Requests[u]: what u may ask for
    Paths

VARIABLES
    store,       \* the content of each file, if there is one
    where,       \* where each user is
    call,        \* the request a user has made, if any
    result,      \* the answer to it, if there is one
    stopped      \* the users that are gone

storeVars == <<store, where, call, result, stopped>>

Nowhere == <<>>
NoneYet == [u \in Users |-> <<>>]

StoreInit ==
    /\ store = [p \in Paths |-> <<>>] /\ where = [u \in Users |-> Nowhere]
    /\ call = NoneYet /\ result = NoneYet /\ stopped = {}

Ask(u, x) ==
    /\ u \notin stopped /\ call[u] = <<>>
    /\ call' = [call EXCEPT ![u] = <<x>>]
    /\ UNCHANGED <<store, where, result, stopped>>

\* u waits for one of ops to be carried out.
Asked(u, ops) ==
    /\ u \notin stopped /\ result[u] = <<>>
    /\ call[u] # <<>> /\ call[u][1].op \in ops

Named(u) == where[u] \o call[u][1].args[1]

Say(u, said, content) ==
    /\ result' = [result EXCEPT ![u] = <<[said |-> said, content |-> content]>>]
    /\ UNCHANGED <<call, stopped>>

Put(u) ==
    /\ Asked(u, {"UPLOAD"}) /\ Named(u) \in Paths
    /\ store' = [store EXCEPT ![Named(u)] = <<call[u][1].content>>]
    /\ Say(u, "stored", <<>>)
    /\ UNCHANGED where

\* Nothing is lost if nothing was to be stored.
Refuse(u) ==
    /\ Asked(u, {"UPLOAD"}) /\ call[u][1].content = <<>>
    /\ Say(u, "refused", <<>>)
    /\ UNCHANGED <<store, where>>

Get(u) ==
    /\ Asked(u, {"DOWNLOAD"})
    /\ IF Named(u) \in Paths /\ store[Named(u)] # <<>>
       THEN Say(u, "found", store[Named(u)][1])
       ELSE Say(u, "missing", <<>>)
    /\ UNCHANGED <<store, where>>

Move(u) ==
    /\ Asked(u, {"CD"})
    /\ where' \in {where, [where EXCEPT ![u] = Named(u)]}
    /\ Say(u, "done", <<>>)
    /\ UNCHANGED store

Look(u) ==
    /\ Asked(u, {"Register", "Login", "LIST", "SEARCH", "MKDIR", "DOWNLOAD_DIR", "END_OF_DIR"})
    /\ Say(u, "done", <<>>)
    /\ UNCHANGED <<store, where>>

Return(u) ==
    /\ u \notin stopped /\ result[u] # <<>>
    /\ call' = [call EXCEPT ![u] = <<>>]
    /\ result' = [result EXCEPT ![u] = <<>>]
    /\ UNCHANGED <<store, where, stopped>>

\* A user is stopped between requests, while it makes one, while it waits, or with
\* the answer before it.
Stop(u) ==
    /\ u \notin stopped
    /\ stopped' = stopped \cup {u}
    /\ result' = [result EXCEPT ![u] = <<>>]
    /\ \/ call' = [call EXCEPT ![u] = <<>>] /\ (call[u] = <<>> \/ result[u] # <<>>)
       \/ call' = call /\ result[u] = <<>>
       \/ call[u] = <<>> /\ \E x \in Requests[u] : call' = [call EXCEPT ![u] = <<x>>]
    /\ UNCHANGED <<store, where>>

\* What is left of an upload.
PutPart(u) ==
    /\ u \in stopped /\ call[u] # <<>> /\ call[u][1].op = "UPLOAD" /\ Named(u) \in Paths
    /\ \E part \in Prefixes(call[u][1].content) :
          store' = [store EXCEPT ![Named(u)] = <<part>>]
    /\ call' = [call EXCEPT ![u] = <<>>]
    /\ UNCHANGED <<where, result, stopped>>

Drop(u) ==
    /\ u \in stopped /\ call[u] # <<>>
    /\ call' = [call EXCEPT ![u] = <<>>]
    /\ \E w \in Paths : where' \in {where, [where EXCEPT ![u] = w]}
    /\ UNCHANGED <<store, result, stopped>>

StoreNext == \E u \in Users :
    \/ \E x \in Requests[u] : Ask(u, x)
    \/ Put(u) \/ Refuse(u) \/ Get(u) \/ Move(u) \/ Look(u) \/ Return(u)
    \/ Stop(u) \/ PutPart(u) \/ Drop(u)

StoreSpec == StoreInit /\ [][StoreNext]_storeVars
=============================================================================
