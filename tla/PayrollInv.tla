----------------------------- MODULE PayrollInv -----------------------------
(***************************************************************************)
(* The inductive invariants of Payroll: why progress is told truthfully,   *)
(* and why no attempt is burnt for nothing.                                *)
(***************************************************************************)
EXTENDS Payroll

\* The slot has listed the open lines; it is at one of them.
Listed(s) == pc[s] \in {"pay", "send", "execute", "record", "complete"}
AtLine(s) == pc[s] \in {"send", "execute", "record"}

\* What a slot does not have on its list is completed, the line whose answer it
\* has got has a transfer, and a job that ends without an exception is complete:
\* all of that whatever other slots do.
SlotInv(s) ==
  /\ todo[s] \subseteq Lines(job[s]) /\ (pc[s] = "idle" => todo[s] = {})
  /\ AtLine(s) => todo[s] # {}
  /\ pc[s] = "complete" => todo[s] = {}
  /\ Listed(s) => Lines(job[s]) \ todo[s] \subseteq done[job[s]]
  /\ pc[s] \in {"execute", "record"} => transfer[job[s]][NextLine(s)] # "absent"
  /\ pc[s] \in {"release", "acknowledge"} /\ ~threw[s] =>
       done[job[s]] = Lines(job[s])

LineInv == \A s \in Slots : SlotInv(s)

\* BullMQ's lock is on active jobs only, and a job it still tries has attempts left.
QueueInv ==
  \A j \in Jobs :
    /\ holder[j] # NoOne => queue[j] = "active"
    /\ queue[j] \in {"absent", "waiting", "delayed", "active"} =>
         attempts[j] < Attempts

\* Until a lease expires under its holder, a slot that runs has its employer's.
LeaseInv ==
  "lapse" \notin struck =>
    \A s \in Slots : Running(s) \/ pc[s] = "release" => lease[employer[job[s]]] = s

\* Until a slot loses BullMQ's lock, the job of a busy slot is active and its own.
HolderInv ==
  "stall" \notin struck =>
    \A s \in Slots : pc[s] # "idle" =>
      holder[job[s]] = s /\ queue[job[s]] = "active"

\* So, until both have happened, no job is run by two slots.
OneSlotPerJob ==
  Guarded => \A s, r \in Slots :
    Running(s) /\ Running(r) /\ job[s] = job[r] => s = r

LinesInv == TypeOK /\ QueueInv /\ LineInv /\ NoLineLost /\ CompletedHasTransfer

ProgressInv ==
  LinesInv /\ LeaseInv /\ HolderInv /\ ProgressIsTrue /\ ListIsCurrent

\* A failure that is not yet counted: the slot has thrown, or its transfer was
\* reversed and it is about to; a job that is active is nobody's.
Owes(s) ==
  \/ threw[s]
  \/ pc[s] = "execute" /\ transfer[job[s]][NextLine(s)] = "REVERSED"

Abandoned(j) == queue[j] = "active" /\ holder[j] = NoOne

Burnt == [j \in Jobs |-> attempts[j] + stalls[j]
                          + IF Abandoned(j) THEN 1 ELSE 0]
Owed  == [s \in Slots |-> IF Owes(s) THEN 1 ELSE 0]

\* Only the request that inserted a transfer's row waits for its execution.
OneWaits ==
  \A s, r \in Slots :
    /\ pc[s] = "execute" /\ pc[r] = "execute"
    /\ job[s] = job[r] /\ NextLine(s) = NextLine(r)
    => s = r

\* Every attempt that is burnt, or that will be, was paid for by a fault of its
\* own.
DebtInv ==
  /\ OneWaits
  /\ SumFunctionOnSet(Burnt, Jobs) + SumFunctionOnSet(Owed, Slots) <= faults
=============================================================================
