---------------------------- MODULE EventStream ----------------------------
(***************************************************************************)
(* What the realtime layer promises a client, with no server and no wire:  *)
(* a world has one append-only event log, and a client that entered it at  *)
(* some watermark applies later events one at a time, in order, and passes *)
(* none by but those it was told of as lost                                *)
(* (docs/design/ARCHITECTURE.md, "Ordered, recoverable realtime").         *)
(* RoomSync is shown to implement this module.                             *)
(***************************************************************************)
EXTENDS Integers, Sequences

CONSTANT Clients      \* the client sessions (browser tabs)

VARIABLES
  log,      \* the highest committed seq: the log is 1..log
  base,     \* base[c]: the watermark c entered at, NotEntered before
  applied,  \* applied[c]: the seqs handed to c's stores since it entered, in order
  lost      \* lost[c]: the seqs a replay passed by since c entered

vars == <<log, base, applied, lost>>

NotEntered == -1

TypeOK ==
  /\ log \in Nat
  /\ base \in [Clients -> Nat \cup {NotEntered}]
  /\ applied \in [Clients -> Seq(Nat)]
  /\ lost \in [Clients -> SUBSET Nat]

Init ==
  /\ log = 0
  /\ base = [c \in Clients |-> NotEntered]
  /\ applied = [c \in Clients |-> <<>>]
  /\ lost = [c \in Clients |-> {}]

(* A world write takes the next seq.                                       *)
Commit ==
  /\ log' = log + 1
  /\ UNCHANGED <<base, applied, lost>>

(* A session opens on a state of the world at or before the newest one.    *)
Enter(c) ==
  /\ base[c] = NotEntered
  /\ \E b \in 0..log : base' = [base EXCEPT ![c] = b]
  /\ UNCHANGED <<log, applied, lost>>

(* A replay passes some events by.                                         *)
Lose(c) ==
  /\ base[c] # NotEntered
  /\ \E S \in SUBSET (1..log) : lost' = [lost EXCEPT ![c] = @ \cup S]
  /\ UNCHANGED <<log, base, applied>>

(* The first event past everything c has may be applied, or one that only  *)
(* lost events come before.                                                *)
Newest(c) == IF applied[c] = <<>> THEN base[c] ELSE applied[c][Len(applied[c])]

Apply(c) ==
  /\ base[c] # NotEntered
  /\ \E n \in (Newest(c) + 1)..log :
       /\ \A d \in (Newest(c) + 1)..(n - 1) : d \in lost[c]
       /\ applied' = [applied EXCEPT ![c] = Append(@, n)]
  /\ UNCHANGED <<log, base, lost>>

Leave(c) ==
  /\ base[c] # NotEntered
  /\ base' = [base EXCEPT ![c] = NotEntered]
  /\ applied' = [applied EXCEPT ![c] = <<>>]
  /\ lost' = [lost EXCEPT ![c] = {}]
  /\ UNCHANGED log

Next == Commit \/ \E c \in Clients : Enter(c) \/ Lose(c) \/ Apply(c) \/ Leave(c)

Spec == Init /\ [][Next]_vars

=============================================================================
