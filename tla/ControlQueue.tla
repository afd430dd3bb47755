---------------------------- MODULE ControlQueue ----------------------------
(***************************************************************************)
(* simbiote/agentic/control_queue.py: the directory of files between the   *)
(* operators' say.py processes and the hospital_server.py process.  Each   *)
(* client sends its instructions one after the other (submit, then         *)
(* await_result); the server takes the oldest file of the inbox, executes  *)
(* it and writes the result to the outbox under the same sequence number.  *)
(* A submit is a directory scan, a write of the temporary file and a       *)
(* rename; taking an instruction is a read and an unlink: other processes  *)
(* run between those steps.                                                *)
(*                                                                         *)
(* An instruction <<c, k>> is the k-th one client c sends; its result is   *)
(* written as the instruction itself.  A scan sees inbox and outbox at one *)
(* instant, write_text is one step, and numbers stay below the six digits  *)
(* up to which file names sort as numbers do.                              *)
(***************************************************************************)
EXTENDS Integers, Sequences, FiniteSets, FiniteSetsExt

CONSTANTS
  Clients,          \* the operators' say.py processes
  PerClient,        \* how many instructions each is given
  NONE,             \* no file, no answer yet
  TIMEOUT,          \* await_result returned None
  ClientsTimeOut,   \* FALSE: every client waits for as long as it takes
  MaxStarts,        \* bound on how often the server is started
  MaxCutOff         \* bound on how many numbers are cut off between two resets

Instr == Clients \X (1..PerClient)
Seqs == 1..Cardinality(Instr)

ASSUME PerClientAssumption == PerClient \in Nat \ {0}
ASSUME ClientsAssumption == IsFiniteSet(Clients) /\ Clients # {}
ASSUME NoneAssumption == {NONE, TIMEOUT} \cap Instr = {} /\ NONE # TIMEOUT
ASSUME TimeOutAssumption == ClientsTimeOut \in BOOLEAN
ASSUME StartsAssumption == MaxStarts \in Nat \ {0}
ASSUME CutOffAssumption == MaxCutOff \in Nat

VARIABLES
  inbox,     \* inbox/<seq>.json
  tmp,       \* inbox/.<seq>.json.tmp
  outbox,    \* outbox/<seq>.json
  ready,     \* status.json exists and says ready
  client,    \* each say.py: where it is, which instruction, the seq it holds
  server,    \* hospital_server's main loop: where it is, seq and instruction in hand
  starts,    \* how often the server was started
  answer,    \* what await_result gave for each instruction
  executed,  \* history: instructions in the order they were executed
  sent,      \* history: instructions renamed into the inbox since the last reset
  seqOf,     \* history: the seq each instruction was submitted under
  earlier,   \* history: for each instruction, those in `sent` when its submit began
  cutOff     \* history: numbers taken since the last reset whose worker died over them

files == <<inbox, tmp, outbox, ready>>
history == <<executed, sent, seqOf, earlier, cutOff>>
vars == <<files, client, server, starts, answer, history>>

Dir == [Seqs -> Instr \cup {NONE}]
Names(dir) == {s \in Seqs : dir[s] # NONE}
Content(dir) == {dir[s] : s \in Names(dir)}
Done == {executed[i] : i \in 1..Len(executed)}

ClientPC == {"start", "next", "scanned", "written", "await", "done", "crashed"}

TypeOK ==
  /\ inbox \in Dir /\ tmp \in Dir /\ outbox \in Dir
  /\ ready \in BOOLEAN
  /\ client \in [Clients -> [pc : ClientPC, k : 1..(PerClient + 1), seq : Seqs \cup {0}]]
  /\ server \in [pc : {"down", "reset", "booting", "idle", "read", "busy"}, seq : Seqs \cup {0},
                 instr : Instr \cup {NONE}]
  /\ starts \in 0..MaxStarts
  /\ answer \in [Instr -> Instr \cup {NONE, TIMEOUT}]
  /\ executed \in Seq(Instr)
  /\ sent \subseteq Instr
  /\ seqOf \in [Instr -> Seqs \cup {0}]
  /\ earlier \in [Instr -> SUBSET Instr]
  /\ cutOff \subseteq Seqs \cup {0}

Empty == [s \in Seqs |-> NONE]

Init ==
  /\ inbox = Empty /\ tmp = Empty /\ outbox = Empty /\ ready = FALSE
  /\ client = [c \in Clients |-> [pc |-> "start", k |-> 1, seq |-> 0]]
  /\ server = [pc |-> "down", seq |-> 0, instr |-> NONE]
  /\ starts = 0
  /\ answer = [i \in Instr |-> NONE]
  /\ executed = <<>> /\ sent = {}
  /\ seqOf = [i \in Instr |-> 0] /\ earlier = [i \in Instr |-> {}]
  /\ cutOff = {}

-----------------------------------------------------------------------------
(* The server.                                                               *)

(* Boot: reset() clears the inbox, whatever the last server left there ...   *)
Start ==
  /\ server.pc = "down" /\ starts < MaxStarts
  /\ inbox' = Empty
  /\ server' = [pc |-> "reset", seq |-> 0, instr |-> NONE]
  /\ starts' = starts + 1
  /\ sent' = {} /\ cutOff' = {}
  /\ UNCHANGED <<tmp, outbox, ready, client, answer, executed, seqOf, earlier>>

(* ... then the outbox and the status ...                                    *)
ClearOutbox ==
  /\ server.pc = "reset"
  /\ outbox' = Empty /\ ready' = FALSE
  /\ server' = [server EXCEPT !.pc = "booting"]
  /\ UNCHANGED <<inbox, tmp, client, starts, answer, history>>

(* ... and the server says that it is ready.                                 *)
Announce ==
  /\ server.pc = "booting"
  /\ ready' = TRUE
  /\ server' = [server EXCEPT !.pc = "idle"]
  /\ UNCHANGED <<inbox, tmp, outbox, client, starts, answer, history>>

(* Mutant: the listing of the inbox is not sorted.                           *)
ReadAny ==
  /\ server.pc = "idle"
  /\ \E s \in Names(inbox) : server' = [pc |-> "read", seq |-> s, instr |-> inbox[s]]
  /\ UNCHANGED <<files, client, starts, answer, history>>

(* next_instruction: read the first file of the sorted inbox ...             *)
ReadOldest ==
  /\ server.pc = "idle" /\ Names(inbox) # {}
  /\ server' = [pc |-> "read", seq |-> Min(Names(inbox)), instr |-> inbox[Min(Names(inbox))]]
  /\ UNCHANGED <<files, client, starts, answer, history>>

(* Mutant: the file is left in the inbox.                                    *)
TakeWithoutUnlink ==
  /\ server.pc = "read"
  /\ server' = [server EXCEPT !.pc = "busy"]
  /\ executed' = Append(executed, server.instr)
  /\ UNCHANGED <<files, client, starts, answer, sent, seqOf, earlier, cutOff>>

(* Mutant: taking an instruction empties the inbox.                          *)
TakeAll ==
  /\ server.pc = "read"
  /\ inbox' = Empty
  /\ server' = [server EXCEPT !.pc = "busy"]
  /\ executed' = Append(executed, server.instr)
  /\ UNCHANGED <<tmp, outbox, ready, client, starts, answer, sent, seqOf, earlier, cutOff>>

(* ... and unlink it, whatever it holds by now, before executing it.         *)
Take ==
  /\ server.pc = "read"
  /\ inbox' = [inbox EXCEPT ![server.seq] = NONE]
  /\ server' = [server EXCEPT !.pc = "busy"]
  /\ executed' = Append(executed, server.instr)
  /\ UNCHANGED <<tmp, outbox, ready, client, starts, answer, sent, seqOf, earlier, cutOff>>

Publish ==
  /\ server.pc = "busy"
  /\ outbox' = [outbox EXCEPT ![server.seq] = server.instr]
  /\ server' = [pc |-> "idle", seq |-> 0, instr |-> NONE]
  /\ UNCHANGED <<inbox, tmp, ready, client, starts, answer, history>>

(* The worker thread dies over its instruction and the server polls on, none *)
(* the wiser: a Ctrl-C within a drive is handed to the skill, and neither    *)
(* run_session nor handle stops it; nor an OSError of announce or of         *)
(* publish_result itself.                                                    *)
WorkerDies ==
  /\ server.pc = "busy" /\ Cardinality(cutOff) < MaxCutOff
  /\ cutOff' = cutOff \cup {server.seq}
  /\ server' = [pc |-> "idle", seq |-> 0, instr |-> NONE]
  /\ UNCHANGED <<files, client, starts, answer, executed, sent, seqOf, earlier>>

(* The process dies where it stands and leaves every file behind; explored   *)
(* while another start can follow.                                           *)
Crash ==
  /\ server.pc # "down" /\ starts < MaxStarts
  /\ server' = [pc |-> "down", seq |-> 0, instr |-> NONE]
  /\ UNCHANGED <<files, client, starts, answer, history>>

(* The finally block: the status is withdrawn, the directories stay.  Ctrl-C *)
(* gets here from the middle of an instruction, too.                         *)
Stop ==
  /\ server.pc \in {"idle", "read", "busy"} /\ starts < MaxStarts
  /\ ready' = FALSE
  /\ server' = [pc |-> "down", seq |-> 0, instr |-> NONE]
  /\ UNCHANGED <<inbox, tmp, outbox, client, starts, answer, history>>

-----------------------------------------------------------------------------
(* A client.                                                                 *)

Sending(c) == <<c, client[c].k>>
Goto(c, label) == client' = [client EXCEPT ![c].pc = label]

(* say.py looks at the status once, before its first instruction.            *)
CheckStatus(c) ==
  /\ client[c].pc = "start"
  /\ Goto(c, IF ready THEN "next" ELSE "done")
  /\ UNCHANGED <<files, server, starts, answer, history>>

(* submit: the number after the highest one in either directory.             *)
Scan(c) ==
  LET seen == Names(inbox) \cup Names(outbox)
      seq  == IF seen = {} THEN 1 ELSE Max(seen) + 1
  IN  /\ client[c].pc = "next" /\ client[c].k <= PerClient
      /\ client' = [client EXCEPT ![c].pc = "scanned", ![c].seq = seq]
      /\ seqOf' = [seqOf EXCEPT ![Sending(c)] = seq]
      /\ earlier' = [earlier EXCEPT ![Sending(c)] = sent]
      /\ UNCHANGED <<files, server, starts, answer, executed, sent, cutOff>>

WriteTemporary(c) ==
  /\ client[c].pc = "scanned"
  /\ tmp' = [tmp EXCEPT ![client[c].seq] = Sending(c)]
  /\ Goto(c, "written")
  /\ UNCHANGED <<inbox, outbox, ready, server, starts, answer, history>>

(* Path.replace moves whatever the temporary file holds, over whatever the   *)
(* inbox holds, and raises when another client has moved the file already.   *)
Rename(c) ==
  LET seq == client[c].seq IN
  /\ client[c].pc = "written"
  /\ IF tmp[seq] = NONE
     THEN Goto(c, "crashed") /\ UNCHANGED <<inbox, tmp, sent>>
     ELSE /\ inbox' = [inbox EXCEPT ![seq] = tmp[seq]]
          /\ tmp' = [tmp EXCEPT ![seq] = NONE]
          /\ sent' = sent \cup {tmp[seq]}
          /\ Goto(c, "await")
  /\ UNCHANGED <<outbox, ready, server, starts, answer, executed, seqOf, earlier, cutOff>>

Answered(c, result) ==
  /\ answer' = [answer EXCEPT ![Sending(c)] = result]
  /\ client' = [client EXCEPT ![c].pc = IF client[c].k < PerClient THEN "next" ELSE "done",
                              ![c].k = @ + 1]
  /\ UNCHANGED <<files, server, starts, history>>

ReadResult(c) ==
  /\ client[c].pc = "await" /\ outbox[client[c].seq] # NONE
  /\ Answered(c, outbox[client[c].seq])

GiveUp(c) ==
  /\ ClientsTimeOut /\ client[c].pc = "await"
  /\ Answered(c, TIMEOUT)

-----------------------------------------------------------------------------
ClientStep(c) ==
  CheckStatus(c) \/ Scan(c) \/ WriteTemporary(c) \/ Rename(c) \/ ReadResult(c)

(* Nobody has anything left to do: the server polls an empty inbox.          *)
Quiescent ==
  /\ \A c \in Clients : client[c].pc \in {"done", "crashed", "await"}
  /\ server.pc = "idle" /\ Names(inbox) = {}
  /\ UNCHANGED vars

Next ==
  \/ Start \/ ClearOutbox \/ Announce \/ ReadOldest \/ Take \/ Publish \/ WorkerDies \/ Crash \/ Stop
  \/ \E c \in Clients : ClientStep(c) \/ GiveUp(c)
  \/ Quiescent

Spec == Init /\ [][Next]_vars

(* The server, once started, keeps polling and every session ends, with a    *)
(* result or without; a client process runs on.                              *)
FairSpec ==
  /\ Spec
  /\ WF_vars(Start) /\ WF_vars(ClearOutbox) /\ WF_vars(Announce)
  /\ WF_vars(ReadOldest) /\ WF_vars(Take) /\ WF_vars(Publish)
  /\ \A c \in Clients : WF_vars(ClientStep(c))

-----------------------------------------------------------------------------
(* An instruction moves the robot at most once, whatever clients collide,    *)
(* time out or resubmit and wherever the server dies, and only for the server*)
(* it was sent to: it is unlinked before it is executed, and a reset forgets *)
(* what was left behind for the server before.                               *)
ExecutedOnceByItsServer ==
  [][executed' # executed =>
       \E x \in sent \ Done : executed' = Append(executed, x)]_vars

(* "the sim processes instructions in the order they were sent": no          *)
(* instruction is executed while one whose submit had completed before its   *)
(* own began is still in the inbox.                                          *)
NoOvertaking ==
  \A y \in Done : earlier[y] \cap Content(inbox) \cap sent = {}

(* While one server runs, an instruction that reached the inbox is executed  *)
(* or still on its way, unless another one was submitted under its number.   *)
LostOnlyByCollision ==
  \A x \in sent :
    \/ x \in Content(inbox) \cup Done \cup {server.instr}
    \/ server.pc = "down"
    \/ \E y \in Instr \ {x} : seqOf[y] = seqOf[x]

(* While one server runs, a client that got as far as waiting is answered,   *)
(* unless the worker died over the very number it holds: even of two that    *)
(* share a number, the one whose instruction was replaced in the inbox (it   *)
(* gets the answer of the other), and whoever else's worker died.            *)
EveryWaitIsAnswered ==
  \A c \in Clients :
    [](starts <= 1) =>
      (client[c].pc = "await" ~> client[c].pc # "await" \/ client[c].seq \in cutOff)
=============================================================================
