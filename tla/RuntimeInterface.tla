-------------------------- MODULE RuntimeInterface --------------------------
(***************************************************************************)
(* What runtime.Runtime (internal/runtime/types.go) promises a client,     *)
(* whichever runtime is behind it: a configuration is a set of classes,    *)
(* each with the path of a kata configuration, and a default.  A call      *)
(* changes the class it is given, and saves what the calls before it made. *)
(*                                                                         *)
(* Both back ends promise it, ContainerdSession and CrioSession, though    *)
(* their configurations are trees of which the classes are a part, with    *)
(* tables, a version and a default that come and go with them.             *)
(***************************************************************************)
CONSTANTS
  Names,
  KataConfigs,  \* paths of kata configurations
  Written       \* what the administrator writes himself, as views

\* A view is [paths, default]: the classes that are there with their paths, and
\* the class that is the default, if one is.
None == [paths |-> [m \in {} |-> m], default |-> {}]

\* The first three are each the set of one view, or empty if there is none.
VARIABLES
  client,   \* of the Config of the client
  saved,    \* of the file: what the runtime would make of it
  source,   \* what Setup of the next client is given
  saving    \* "begun" between the two halves of a save that is not atomic, "raced"
            \* if the administrator has written the file in between, else "no"

vars == <<client, saved, source, saving>>

With(v, n, path, setAsDefault) ==
  [paths   |-> [m \in DOMAIN v.paths \union {n} |-> IF m = n THEN path ELSE v.paths[m]],
   default |-> IF setAsDefault THEN {n} ELSE v.default]

Without(v, n) ==
  [paths |-> [m \in DOMAIN v.paths \ {n} |-> v.paths[m]], default |-> v.default \ {n}]

Init ==
  /\ client = {}
  /\ saved \in {{v} : v \in Written \union {None}}
  /\ source \in {saved, {}}
  /\ saving = "no"

\* A client makes one call at a time.
Idle == saving = "no" /\ saving' = "no"

Open == Idle /\ source # {} /\ client' = source /\ UNCHANGED <<saved, source>>

AddRuntime(n, path, setAsDefault) ==
  /\ Idle
  /\ \E v \in client : client' = {With(v, n, path, setAsDefault)}
  /\ UNCHANGED <<saved, source>>

RemoveRuntime(n) ==
  /\ Idle
  /\ \E v \in client : client' = {Without(v, n)}
  /\ UNCHANGED <<saved, source>>

\* A back end may empty the file before it writes: until then the runtime, should it
\* start, finds a file that says nothing.
Empty ==
  /\ client # {} /\ saving = "no" /\ saving' = "begun"
  /\ saved' = {None}
  /\ UNCHANGED <<client, source>>

\* containerd's Setup reads the file, CRI-O's asks the CRI-O that runs.
Save ==
  /\ client # {} /\ saving' = "no"
  /\ saved' = client
  /\ source' \in {source, client}
  /\ UNCHANGED client

\* The administrator's file stays, or is mixed with what is written.
Clash ==
  /\ saving = "raced" /\ saving' = "no"
  /\ saved' \in {saved, {}}
  /\ UNCHANGED <<client, source>>

\* A save that was cut short leaves a file that says nothing (or what the administrator
\* has written since), or one that nobody can read.
Tear ==
  /\ client # {} /\ client' = {} /\ saving # "no" /\ saving' = "no"
  /\ saved' \in {saved, {}}
  /\ UNCHANGED source

Close == Idle /\ client' = {} /\ UNCHANGED <<saved, source>>

\* The runtime starts, or is restarted, and stops.
Apply == source' = saved /\ UNCHANGED <<client, saved, saving>>
Stop  == source' = {} /\ UNCHANGED <<client, saved, saving>>

Edit ==
  /\ saved' \in {{v} : v \in Written}
  /\ saving' = IF saving = "no" THEN "no" ELSE "raced"
  /\ UNCHANGED <<client, source>>

Next ==
  \/ Open \/ Empty \/ Save \/ Clash \/ Tear \/ Close \/ Apply \/ Stop \/ Edit
  \/ \E n \in Names : RemoveRuntime(n)
  \/ \E n \in Names, path \in KataConfigs, d \in BOOLEAN : AddRuntime(n, path, d)

Spec == Init /\ [][Next]_vars

=============================================================================
