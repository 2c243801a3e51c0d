---------------------------- MODULE PartitionLog ----------------------------
(***************************************************************************)
(* What a partition promises to those who send it commands: its log takes  *)
(* commands from the queue, each at most once and in the order in which    *)
(* they were sent, and its event stream tells of logged commands, each at  *)
(* most once and in the order of the log.                                  *)
(*                                                                         *)
(* A command may be passed over (it is rejected, or dead-lettered), and so *)
(* may the events of a logged command (a crash comes before them), but     *)
(* nothing that was passed over is taken up again.  There are no           *)
(* processes, deliveries or crashes here: CommandWorker is shown to        *)
(* implement this whatever happens to its processes, and GoWorker to keep  *)
(* what follows from it as long as no key expires in use.                  *)
(***************************************************************************)
EXTENDS Naturals, Sequences

CONSTANT Command

VARIABLES
  sent,     \* the commands in the order they entered the queue
  log,      \* the commands that have changed the book
  eventLog  \* the commands whose events were published

vars == <<sent, log, eventLog>>

Elements(s) == {s[i] : i \in 1..Len(s)}

\* What source holds behind everything that is in done.
Open(source, done) ==
  {source[n] : n \in {n \in 1..Len(source) :
                        \A m \in n..Len(source) : source[m] \notin Elements(done)}}

Init ==
  /\ sent = <<>>
  /\ log = <<>>
  /\ eventLog = <<>>

Send(c) ==
  /\ c \notin Elements(sent)
  /\ sent' = Append(sent, c)
  /\ UNCHANGED <<log, eventLog>>

Record(c) ==
  /\ c \in Open(sent, log)
  /\ log' = Append(log, c)
  /\ UNCHANGED <<sent, eventLog>>

Tell(c) ==
  /\ c \in Open(log, eventLog)
  /\ eventLog' = Append(eventLog, c)
  /\ UNCHANGED <<sent, log>>

Next == \E c \in Command : Send(c) \/ Record(c) \/ Tell(c)

Spec == Init /\ [][Next]_vars

-----------------------------------------------------------------------------
(* What follows from it *)

Distinct(s) == \A i, j \in 1..Len(s) : s[i] = s[j] => i = j

\* s names commands of source only, in the order source has them.
KeepsOrder(s, source) ==
  \A i, j \in 1..Len(s) : i < j =>
    \E k, m \in 1..Len(source) : k < m /\ source[k] = s[i] /\ source[m] = s[j]

\* A command is applied once however often it is delivered, and told of once.
Once == Distinct(log) /\ Distinct(eventLog)

\* Nothing overtakes: the log keeps the order of the queue, the event stream
\* that of the log.
InOrder == KeepsOrder(log, sent) /\ KeepsOrder(eventLog, log)
=============================================================================
