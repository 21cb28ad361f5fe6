-------------------------------- MODULE Schema --------------------------------
(* The start of the database (constructor and migrate() of src/server/db.ts): *)
(* the schema of an earlier release is brought up to date, statement by       *)
(* statement, in one transaction.  A second server may start while the first  *)
(* does (a container that is being replaced), and each may die at any step.   *)
EXTENDS Naturals, Sequences

CONSTANTS
    Processes,     \* the servers that open the database
    NoProcess

ASSUME SchemaAssumption == NoProcess \notin Processes

VARIABLES
    disk,   \* what is committed: version, tables and columns, journal mode
    lock,   \* who may write
    opener  \* process -> how far its constructor is

schemaVars == <<disk, lock, opener>>

\* What each version adds, in the order of its statements.  A column that the
\* rows of an earlier release lack is filled by a statement of its own.
Migrations == <<
    <<"users", "sessions", "gluetun_instances", "stored_secrets", "local_port_labels",
      "compose_drafts", "audit_events", "audit_created_idx">>,
    <<"last_seen_at", "reauthenticated_at", "session times filled">>,
    <<"request_id", "request identities filled">>,
    <<"traffic_state", "traffic_daily">> >>
Latest == Len(Migrations)

Whole(version) ==
    UNION {{Migrations[v][i] : i \in DOMAIN Migrations[v]} : v \in 1..version}

Off == [pc |-> "off", version |-> 0, has |-> {}, at |-> 1]
Halted == {"off", "refused", "failed", "duplicate"}

\* A database of any earlier release, of this one, or of a newer one.
SchemaInit ==
    /\ \E version \in 0..Latest + 1 :
          disk = [version |-> version, has |-> Whole(IF version > Latest THEN Latest ELSE version),
                  wal |-> FALSE]
    /\ lock = NoProcess /\ opener = [p \in Processes |-> Off]

Goes(p, pc) == opener' = [opener EXCEPT ![p].pc = pc]
Unlocked(p) == lock' = IF lock = p THEN NoProcess ELSE lock

\* The constructor closes what it opened, and the transaction is undone.
Closes(p, why) == opener' = [opener EXCEPT ![p] = [Off EXCEPT !.pc = why]] /\ Unlocked(p)

Open(p) ==
    /\ opener[p].pc \in Halted /\ Goes(p, "opened") /\ UNCHANGED <<disk, lock>>

CheckVersion(p) ==
    /\ opener[p].pc = "opened"
    /\ IF disk.version > Latest THEN Closes(p, "refused")
       ELSE /\ opener' = [opener EXCEPT ![p].pc = "checked", ![p].version = disk.version]
            /\ UNCHANGED lock
    /\ UNCHANGED disk

JournalMode(p) ==
    /\ opener[p].pc = "checked" /\ (disk.wal \/ lock = NoProcess)
    /\ disk' = [disk EXCEPT !.wal = TRUE] /\ Goes(p, "journal") /\ UNCHANGED lock

\* Mutant of Begun: the version is the one that was read before.
BegunBefore(p) == [opener[p] EXCEPT !.pc = "migrating", !.has = disk.has]

\* The transaction reads the version again, behind its lock.
Begun(p) == [opener[p] EXCEPT !.pc = "migrating", !.has = disk.has, !.version = disk.version]

Begin(p) ==
    /\ opener[p].pc = "journal" /\ lock = NoProcess
    /\ opener' = [opener EXCEPT ![p] = Begun(p)] /\ lock' = p /\ UNCHANGED disk

\* A table or a column that is there already cannot be added.
Statement(p) ==
    /\ opener[p].pc = "migrating" /\ opener[p].version < Latest
    /\ LET o == opener[p]
           script == Migrations[o.version + 1]
       IN  IF o.at > Len(script)
           THEN /\ opener' = [opener EXCEPT ![p].version = o.version + 1, ![p].at = 1]
                /\ UNCHANGED lock
           ELSE IF script[o.at] \in o.has THEN Closes(p, "duplicate")
           ELSE /\ opener' = [opener EXCEPT ![p].has = @ \cup {script[o.at]}, ![p].at = o.at + 1]
                /\ UNCHANGED lock
    /\ UNCHANGED disk

Commit(p) ==
    /\ opener[p].pc = "migrating" /\ opener[p].version = Latest
    /\ disk' = [disk EXCEPT !.version = Latest, !.has = opener[p].has]
    /\ Goes(p, "running") /\ Unlocked(p)

\* A full disk, a busy file: what was open is closed and undone.
Trouble(p) ==
    /\ opener[p].pc \notin Halted \cup {"running"} /\ Closes(p, "failed") /\ UNCHANGED disk

\* Death at any step: the next one to open finds what was committed.
Dies(p) == opener[p].pc \notin Halted /\ Closes(p, "off") /\ UNCHANGED disk

SchemaNext ==
    \E p \in Processes :
        \/ Open(p) \/ CheckVersion(p) \/ JournalMode(p) \/ Begin(p)
        \/ Statement(p) \/ Commit(p) \/ Trouble(p) \/ Dies(p)

SchemaSpec == SchemaInit /\ [][SchemaNext]_schemaVars

\* SchemaWhole: what is committed is a whole schema of the version it names (a newer one is
\* left as it is); whatever died before, no start finds a table or a column
\* that it is about to add, and a process that runs has the latest schema.
SchemaWhole ==
    /\ disk.version <= Latest => disk.has = Whole(disk.version)
    /\ disk.version > Latest => ~disk.wal
    /\ \A p \in Processes :
          /\ opener[p].pc # "duplicate"
          /\ opener[p].pc = "running" => disk.version = Latest
=============================================================================
