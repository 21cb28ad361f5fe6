------------------------------- MODULE Docker -------------------------------
(***************************************************************************)
(* The containers of one host as the manager's Docker adapter sees them    *)
(* (src/server/management/docker.ts).  Every operation of the adapter is a *)
(* pair: the condition under which the daemon performs it, and the table   *)
(* of containers afterwards.  Whether the caller learns the outcome is     *)
(* decided by the module that makes the call.                              *)
(*                                                                         *)
(* A container belongs to a slot of its stack: slot 1 is the Gluetun VPN,  *)
(* the other slots are the applications routed through it.  Its name is    *)
(* the name of the slot, followed by "-tuniku-backup-<operation>" for each *)
(* operation that retained it: a set of operations says as much, because   *)
(* an operation renames a container once.                                  *)
(***************************************************************************)
EXTENDS Naturals

CONSTANTS
  Ids,     \* container identities; the daemon never uses one twice
  NoId,    \* "no container": the network mode of a container with its own
  Ops,     \* identities of operations
  Cfgs,    \* what a reviewed change can alter: environment and ports
  Size     \* services of a stack: the VPN and its applications

ASSUME DockerAssumption ==
  /\ Size \in Nat \ {0}
  /\ NoId \notin Ids

VARIABLE ctr   \* ctr[i] : the container with identity i

Slots  == 1..Size
Names  == [slot : Slots, tags : SUBSET Ops]
Confs  == [id : Ids, name : Names, cfg : Cfgs, ns : Ids \cup {NoId}]
States == {"unused", "stopped", "running", "removed"}

Containers == [st : States, name : Names, cfg : Cfgs, ns : Ids \cup {NoId}]

Exists(i)  == ctr[i].st \in {"stopped", "running"}
Running(i) == ctr[i].st = "running"

NameFree(n) == \A j \in Ids : Exists(j) => ctr[j].name # n

\* What inspect shows of container i, without and with its run state.
ConfOf(i) == [id |-> i, name |-> ctr[i].name, cfg |-> ctr[i].cfg,
              ns |-> ctr[i].ns]
Seen(i)   == [conf |-> ConfOf(i), up |-> Running(i)]
Snapshots == [conf : Confs, up : BOOLEAN]

\* Every container whose network namespace is that of v, stopped ones too.
Dependents(v) == {j \in Ids : Exists(j) /\ ctr[j].ns = v}

UnusedIds == {i \in Ids : ctr[i].st = "unused"}
FreshId   == CHOOSE i \in Ids : ctr[i].st = "unused"

CanCreate(n) == NameFree(n) /\ UnusedIds # {}
Created(n, c, v) ==
  [ctr EXCEPT ![FreshId] = [st |-> "stopped", name |-> n, cfg |-> c, ns |-> v]]

CanRename(i, n) == Exists(i) /\ NameFree(n)
Renamed(i, n)   == [ctr EXCEPT ![i].name = n]

\* A container joins the namespace of another one only while that one runs.
CanStart(i) == Exists(i) /\ (ctr[i].ns \in Ids => Running(ctr[i].ns))
Started(i)  == [ctr EXCEPT ![i].st = "running"]

\* Stopping a stopped container succeeds (HTTP 304).
CanStop(i) == Exists(i)
Stopped(S) == [i \in Ids |-> IF i \in S THEN [ctr[i] EXCEPT !.st = "stopped"]
                             ELSE ctr[i]]

\* force=false: the daemon refuses to remove a running container.
CanRemove(i) == ctr[i].st = "stopped"
RemovedC(i)  == [ctr EXCEPT ![i].st = "removed"]

\* Health itself is the caller's choice; a stopped service is never healthy.
CanBeHealthy(i) == Running(i)
=============================================================================
