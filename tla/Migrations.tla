----------------------------- MODULE Migrations -----------------------------
(* What a process does to the database before it serves: it makes sure that    *)
(* the table of migrations exists, takes an advisory lock and applies, each in *)
(* a transaction of its own, the numbered migrations its binary embeds and the *)
(* table does not record.  Processes of several releases may start at once and *)
(* may fail anywhere; the lock belongs to the connection and goes with it.     *)
EXTENDS Naturals, Sequences

CONSTANTS
  Procs,   \* processes
  NoProc,  \* holder of a free lock
  Embeds   \* [Procs -> Nat]: migrations 1, 2, ... that the binary of a process embeds

ASSUME MigrationsAssumption == NoProc \notin Procs /\ Embeds \in [Procs -> Nat]

VARIABLES
  recorded, \* its committed rows: [migrations -> "dirty" or "clean"]
  schema,   \* the migrations whose SQL was committed, in the order of commit
  lock,     \* the process that holds the advisory lock
  proc      \* proc[p]: its stage, the next migration, and whether it runs in a transaction

mvars == <<recorded, schema, lock, proc>>

Stage(pc, next, ran) == [pc |-> pc, next |-> next, ran |-> ran]
Down == Stage("down", 1, FALSE)
Recorded(m) == m \in DOMAIN recorded /\ recorded[m] = "clean"
SomeDirty == \E m \in DOMAIN recorded : recorded[m] = "dirty"
Record(m, mark) == [n \in DOMAIN recorded \cup {m} |-> IF n = m THEN mark ELSE recorded[n]]

MigrationsInit ==
  /\ recorded = <<>>
  /\ schema = <<>>
  /\ lock = NoProc
  /\ proc = [p \in Procs |-> Down]

(* Creates the table unless it exists.                                         *)
EnsureTable(p) ==
  /\ proc[p].pc = "down"
  /\ proc' = [proc EXCEPT ![p] = Stage("locking", 1, FALSE)]
  /\ UNCHANGED <<recorded, schema, lock>>

LockShared(p) ==  \* fault: the lock does not exclude
  /\ proc[p].pc = "locking"
  /\ lock' = p
  /\ proc' = [proc EXCEPT ![p] = Stage("migrating", 1, FALSE)]
  /\ UNCHANGED <<recorded, schema>>

Lock(p) ==
  /\ proc[p].pc = "locking"
  /\ lock = NoProc
  /\ lock' = p
  /\ proc' = [proc EXCEPT ![p] = Stage("migrating", 1, FALSE)]
  /\ UNCHANGED <<recorded, schema>>

(* applyMigration looks the next migration up and leaves a recorded one alone. *)
SkipApplied(p) ==
  /\ proc[p].pc = "migrating" /\ ~proc[p].ran
  /\ proc[p].next <= Embeds[p]
  /\ ~SomeDirty /\ Recorded(proc[p].next)
  /\ proc' = [proc EXCEPT ![p] = Stage("migrating", proc[p].next + 1, FALSE)]
  /\ UNCHANGED <<recorded, schema, lock>>

(* Else it marks it dirty and executes it: nothing of this shows outside.      *)
Execute(p) ==
  /\ proc[p].pc = "migrating" /\ ~proc[p].ran
  /\ proc[p].next <= Embeds[p]
  /\ ~SomeDirty /\ ~Recorded(proc[p].next)
  /\ proc' = [proc EXCEPT ![p].ran = TRUE]
  /\ UNCHANGED <<recorded, schema, lock>>

(* It marks it clean and commits.                                              *)
Commit(p) ==
  /\ proc[p].pc = "migrating" /\ proc[p].ran
  /\ recorded' = Record(proc[p].next, "clean")
  /\ schema' = Append(schema, proc[p].next)
  /\ proc' = [proc EXCEPT ![p] = Stage("migrating", proc[p].next + 1, FALSE)]
  /\ UNCHANGED lock

Unlock(p) ==
  /\ proc[p].pc = "migrating"
  /\ proc[p].next > Embeds[p]
  /\ lock' = NoProc
  /\ proc' = [proc EXCEPT ![p].pc = "ready"]
  /\ UNCHANGED <<recorded, schema>>

(* A statement fails, a dirty migration is found, the connection or the        *)
(* process is lost: the transaction is rolled back, the lock released.         *)
Stop(p) ==
  /\ proc[p].pc # "down"
  /\ proc' = [proc EXCEPT ![p] = Down]
  /\ lock' = IF lock = p THEN NoProc ELSE lock
  /\ UNCHANGED <<recorded, schema>>

MigrationsNext ==
  \E p \in Procs :
    EnsureTable(p) \/ Lock(p) \/ SkipApplied(p) \/ Execute(p) \/ Commit(p) \/ Unlock(p) \/ Stop(p)

MigrationsSpec == MigrationsInit /\ [][MigrationsNext]_mvars

-----------------------------------------------------------------------------
MigrationsTypeOK ==
  /\ DOMAIN recorded \subseteq Nat
  /\ \A m \in DOMAIN recorded : recorded[m] \in {"dirty", "clean"}
  /\ schema \in Seq(Nat)
  /\ lock \in Procs \cup {NoProc}
  /\ proc \in [Procs -> [pc: {"down", "locking", "migrating", "ready"}, next: Nat, ran: BOOLEAN]]

(* Whichever processes of whichever releases start together and fail: every    *)
(* migration was executed once and in order, the table records just these, and *)
(* none as dirty; a process that serves finds every migration it knows.        *)
SchemaExact ==
  /\ schema = [i \in 1..Len(schema) |-> i]
  /\ recorded = [i \in 1..Len(schema) |-> "clean"]
  /\ \A p \in Procs : proc[p].pc = "ready" => Embeds[p] <= Len(schema)
=============================================================================
