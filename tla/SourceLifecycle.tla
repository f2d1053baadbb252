-------------------------- MODULE SourceLifecycle --------------------------
(***************************************************************************)
(* What a capture session promises to whoever consumes its events, without *)
(* a host, snapshots or loops: per source, Connected and Disconnected      *)
(* alternate, Connected carries an access the mode allows, input and read  *)
(* errors come only from a connected source, open errors only from one     *)
(* that is not, and a session that restarts starts with nothing connected. *)
(* So a consumer that folds the events knows exactly what is active.       *)
(***************************************************************************)
CONSTANTS SourceIds, AccessModes

VARIABLES
  mode,   \* the access policy of the session
  link,   \* link[s]: the access of a connected source, or "Closed"
  event   \* the latest event, or NoEvent when a call has reported none yet

NoSource == "no source"
NoEvent == [kind |-> "none", source |-> NoSource, detail |-> "none"]
Event(k, s, d) == [kind |-> k, source |-> s, detail |-> d]

\* The accesses model.rs:166-182 allows each mode to end in.
Allowed(m) == CASE m = "Shared"          -> {"Shared"}
                [] m = "Exclusive"       -> {"Exclusive"}
                [] m = "PreferExclusive" -> {"Exclusive", "SharedFallback"}

Init == /\ mode \in AccessModes
        /\ link = [s \in SourceIds |-> "Closed"]
        /\ event = NoEvent

Connect(s) ==
  \E a \in Allowed(mode) :
    /\ link[s] = "Closed"
    /\ link' = [link EXCEPT ![s] = a]
    /\ event' = Event("Connected", s, a)
    /\ UNCHANGED mode

Disconnect(s) ==
  /\ link[s] # "Closed"
  /\ link' = [link EXCEPT ![s] = "Closed"]
  /\ event' = Event("Disconnected", s, "none")
  /\ UNCHANGED mode

Deliver(s) ==
  /\ link[s] # "Closed"
  /\ event' = Event("Input", s, link[s])
  /\ UNCHANGED <<mode, link>>

ReadError(s) ==
  /\ link[s] # "Closed"
  /\ \E d \in {"Read", "SynchronizationLost"} : event' = Event("SourceError", s, d)
  /\ UNCHANGED <<mode, link>>

OpenError(s) ==
  /\ link[s] = "Closed"
  /\ \/ event' = Event("SourceError", s, "Open")
     \/ mode = "Exclusive" /\ event' = Event("SourceError", s, "ExclusiveGrab")
  /\ UNCHANGED <<mode, link>>

\* A call begins, with the snapshot's issues if it has any.
StartCall ==
  /\ event' \in {NoEvent, Event("DiscoveryError", NoSource, "none")}
  /\ UNCHANGED <<mode, link>>

Restart ==
  /\ mode' \in AccessModes
  /\ link' = [s \in SourceIds |-> "Closed"]
  /\ event' = NoEvent

Next ==
  \/ \E s \in SourceIds : \/ Connect(s) \/ Disconnect(s) \/ Deliver(s)
                          \/ ReadError(s) \/ OpenError(s)
  \/ StartCall
  \/ Restart

Spec == Init /\ [][Next]_<<mode, link, event>>
=============================================================================
