------------------------- MODULE ControlQueueProofs -------------------------
(***************************************************************************)
(* What holds of the directory queue for every number of operators,        *)
(* instructions and server starts, whether clients time out or not.        *)
(***************************************************************************)
EXTENDS ControlQueue, FiniteSetTheorems, WellFoundedInduction, TLAPS

-----------------------------------------------------------------------------
(* The ends of a set of numbers.                                             *)

(* A set of natural numbers has a least one.                                 *)
LEMMA LeastExists ==
  ASSUME NEW S \in SUBSET Nat, S # {}
  PROVE  \E x \in S : \A y \in S : x <= y
  <1>. DEFINE T == {1..n : n \in S}
              R == StrictSubsetOrdering(Nat)
  <1>1. T \subseteq FiniteSubsetsOf(Nat) /\ T # {}
    <2>1. \A n \in Nat : 1..n \in SUBSET Nat /\ IsFiniteSet(1..n)
      BY FS_Interval
    <2>2. \A n \in S : 1..n \in FiniteSubsetsOf(Nat)
      BY <2>1 DEF FiniteSubsetsOf
    <2>. QED  BY <2>2
  <1>2. IsWellFoundedOn(R, FiniteSubsetsOf(Nat))
    BY FS_StrictSubsetOrderingWellFounded
  <1>3. PICK i \in T : \A j \in T : ~ (<<j, i>> \in R)
    <2>. HIDE DEF T, R
    <2>. QED  BY <1>1, <1>2, WFMin
  <1>4. PICK x \in S : i = 1..x
    OBVIOUS
  <1>5. ASSUME NEW y \in S PROVE x <= y
    <2> SUFFICES ASSUME y < x PROVE FALSE
      OBVIOUS
    <2>1. 1..y \subseteq 1..x /\ 1..y # 1..x
      <3>1. x \in 1..x /\ x \notin 1..y
        OBVIOUS
      <3>. QED  BY <3>1
    <2>2. <<1..y, i>> \in R
      BY <1>4, <2>1 DEF StrictSubsetOrdering
    <2>. QED  BY <1>3, <2>2
  <1>. QED  BY <1>5

(* Min takes it.                                                             *)
LEMMA MinFacts ==
  ASSUME NEW S \in SUBSET Nat, S # {}
  PROVE  Min(S) \in S /\ \A y \in S : Min(S) <= y
  BY LeastExists DEF Min

(* Max takes the greatest of some that stay below a bound.                   *)
LEMMA MaxFacts ==
  ASSUME NEW S \in SUBSET Nat, S # {}, NEW bound \in Nat, \A y \in S : y <= bound
  PROVE  Max(S) \in S /\ \A y \in S : Max(S) >= y
  <1>. DEFINE above == {n \in Nat : \A y \in S : y <= n}
  <1>1. PICK m \in above : \A n \in above : m <= n
    BY LeastExists
  <1>2. m \in S
    <2> SUFFICES ASSUME m \notin S PROVE FALSE
      OBVIOUS
    <2>1. PICK y \in S : TRUE
      OBVIOUS
    <2>2. \A z \in S : z \in Nat /\ z <= m /\ z # m
      BY <1>1
    <2>3. m - 1 \in above
      BY <1>1, <2>1, <2>2
    <2>. QED  BY <1>1, <2>3
  <1>3. \E x \in S : \A y \in S : x >= y
    BY <1>1, <1>2
  <1>. QED  BY <1>3 DEF Max

-----------------------------------------------------------------------------
(* The instructions are finitely many.                                       *)
LEMMA InstrFinite ==
  /\ IsFiniteSet(Instr) /\ Cardinality(Instr) \in Nat
  /\ \A x \in Instr : x[1] \in Clients /\ x[2] \in 1..PerClient /\ x = <<x[1], x[2]>>
  /\ \A c \in Clients, k \in 1..PerClient : <<c, k>> \in Instr
  <1>1. IsFiniteSet(1..PerClient)
    BY FS_Interval, PerClientAssumption
  <1>2. IsFiniteSet(Instr)
    BY <1>1, ClientsAssumption, FS_Product DEF Instr
  <1>. QED  BY <1>2, FS_CardinalityType DEF Instr

(* NONE is no instruction.                                                   *)
LEMMA NoneFacts == NONE \notin Instr /\ TIMEOUT \notin Instr
  BY NoneAssumption

ClientState == [pc : ClientPC, k : 1..(PerClient + 1), seq : Seqs \cup {0}]

(* A client goes on to another place, and no other client does.              *)
MovesTo(c, next) ==
  /\ client' = [client EXCEPT ![c] = next]
  /\ client'[c] = next
  /\ \A d \in Clients : d # c => client'[d] = client[d]

(* The parts of a client's state.                                            *)
LEMMA ClientFields ==
  ASSUME TypeOK, NEW c \in Clients
  PROVE  /\ client[c].pc \in ClientPC /\ client[c].k \in 1..(PerClient + 1)
         /\ client[c].seq \in Seqs \cup {0}
         /\ client[c].k <= PerClient => Sending(c) \in Instr
         /\ Sending(c) = <<c, client[c].k>>
  <1>1. client[c] \in ClientState
    BY DEF TypeOK, ClientState
  <1>. QED  BY <1>1, InstrFinite, PerClientAssumption DEF ClientState, Sending

(* What a client's step does to its own state.                               *)
LEMMA ClientMoves ==
  ASSUME TypeOK, NEW c \in Clients
  PROVE  /\ CheckStatus(c) => \E pc \in {"next", "done"} :
              MovesTo(c, [pc |-> pc, k |-> client[c].k, seq |-> client[c].seq])
         /\ Scan(c) => \E seq : MovesTo(c, [pc |-> "scanned", k |-> client[c].k, seq |-> seq])
         /\ WriteTemporary(c) => MovesTo(c, [pc |-> "written", k |-> client[c].k, seq |-> client[c].seq])
         /\ Rename(c) => \E pc \in {"await", "crashed"} :
              MovesTo(c, [pc |-> pc, k |-> client[c].k, seq |-> client[c].seq])
         /\ ReadResult(c) \/ GiveUp(c) => \E pc \in {"next", "done"} :
              /\ pc = "next" => client[c].k < PerClient
              /\ MovesTo(c, [pc |-> pc, k |-> client[c].k + 1, seq |-> client[c].seq])
  <1>1. client \in [Clients -> ClientState] /\ client[c] \in ClientState
    BY DEF TypeOK, ClientState
  <1>2. ASSUME NEW label, Goto(c, label)
        PROVE  MovesTo(c, [pc |-> label, k |-> client[c].k, seq |-> client[c].seq])
    <2>1. client' = [client EXCEPT ![c] = [client[c] EXCEPT !.pc = label]]
      BY <1>1, <1>2 DEF Goto
    <2>2. [client[c] EXCEPT !.pc = label] = [pc |-> label, k |-> client[c].k, seq |-> client[c].seq]
      BY <1>1 DEF ClientState
    <2>. QED  BY <1>1, <2>1, <2>2 DEF MovesTo
  <1>3. CheckStatus(c) => \E pc \in {"next", "done"} :
          MovesTo(c, [pc |-> pc, k |-> client[c].k, seq |-> client[c].seq])
    BY <1>2 DEF CheckStatus
  <1>4. Scan(c) => \E seq : MovesTo(c, [pc |-> "scanned", k |-> client[c].k, seq |-> seq])
    <2> SUFFICES ASSUME Scan(c)
                 PROVE  \E seq : MovesTo(c, [pc |-> "scanned", k |-> client[c].k, seq |-> seq])
      OBVIOUS
    <2>1. \E seq : client' = [client EXCEPT ![c].pc = "scanned", ![c].seq = seq]
      BY Zenon DEF Scan
    <2>2. PICK seq : client' = [client EXCEPT ![c].pc = "scanned", ![c].seq = seq]
      BY <2>1, Zenon
    <2>3. client'[c] = [pc |-> "scanned", k |-> client[c].k, seq |-> seq]
      BY <1>1, <2>2 DEF ClientState
    <2>4. \A d \in Clients : d # c => client'[d] = client[d]
      BY <1>1, <2>2
    <2>5. client' = [client EXCEPT ![c] = client'[c]]
      BY <1>1, <2>2
    <2>. QED  BY <2>3, <2>4, <2>5 DEF MovesTo
  <1>5. WriteTemporary(c) => MovesTo(c, [pc |-> "written", k |-> client[c].k, seq |-> client[c].seq])
    BY <1>2 DEF WriteTemporary
  <1>6. Rename(c) => \E pc \in {"await", "crashed"} :
          MovesTo(c, [pc |-> pc, k |-> client[c].k, seq |-> client[c].seq])
    BY <1>2 DEF Rename
  <1>7. ASSUME NEW result, Answered(c, result)
        PROVE  \E pc \in {"next", "done"} :
                 /\ pc = "next" => client[c].k < PerClient
                 /\ MovesTo(c, [pc |-> pc, k |-> client[c].k + 1, seq |-> client[c].seq])
    BY <1>1, <1>7 DEF Answered, MovesTo, ClientState
  <1>8. ReadResult(c) \/ GiveUp(c) => \E result : Answered(c, result)
    BY DEF ReadResult, GiveUp
  <1>. QED  BY <1>3, <1>4, <1>5, <1>6, <1>7, <1>8

-----------------------------------------------------------------------------
(* What an instruction goes through.                                         *)

(* Its client has written it, into the temporary file and then the inbox.    *)
Written(x) ==
  \/ x[2] < client[x[1]].k
  \/ x[2] = client[x[1]].k /\ client[x[1]].pc \in {"written", "await", "crashed"}

(* It has a number from the scan of its own submit on, and none before.      *)
ClientsInv ==
  \A c \in Clients :
    /\ client[c].pc \in {"start", "next", "scanned", "written", "await", "crashed"} =>
         client[c].k <= PerClient
    /\ client[c].pc \in {"scanned", "written", "await", "crashed"} =>
         client[c].seq \in Seqs /\ seqOf[Sending(c)] = client[c].seq
    /\ \A k \in 1..PerClient :
         /\ k < client[c].k => seqOf[<<c, k>>] \in Seqs
         /\ k > client[c].k \/ (k = client[c].k /\ client[c].pc \in {"start", "next"}) =>
              seqOf[<<c, k>>] = 0 /\ earlier[<<c, k>>] = {}

(* It lies under its number only: first in the temporary file, then in the   *)
(* inbox, where it is among those sent, then with the server, then done.     *)
PlaceInv ==
  /\ \A s \in Seqs : tmp[s] # NONE =>
       s = seqOf[tmp[s]] /\ Written(tmp[s]) /\ tmp[s] \notin Done \cup sent
  /\ \A s \in Seqs : inbox[s] # NONE =>
       s = seqOf[inbox[s]] /\ inbox[s] \in sent \ Done
  /\ \A x \in sent \cup Done : Written(x)
  /\ server.pc = "read" => server.instr \in sent \ Done
  /\ server.pc = "busy" => server.instr \in Done
  /\ server.pc \in {"read", "busy"} => server.seq = seqOf[server.instr]
  /\ server.pc \notin {"read", "busy"} => server.instr = NONE

(* The numbers are no more than the submits begun, so there is always a next.*)
Begun == {x \in Instr : seqOf[x] # 0}

NumberInv ==
  /\ \A x \in Instr : seqOf[x] <= Cardinality(Begun)
  /\ \A s \in Seqs : outbox[s] # NONE => \E x \in Instr : seqOf[x] = s

(* The submits begun are finitely many.                                      *)
LEMMA BegunFinite == IsFiniteSet(Begun) /\ Cardinality(Begun) \in Nat
  BY InstrFinite, FS_Subset, FS_CardinalityType DEF Begun

(* The numbers that files may have.                                          *)
LEMMA SeqsNat == Seqs \subseteq Nat /\ 0 \notin Seqs
  BY InstrFinite DEF Seqs

(* What an executed sequence holds.                                          *)
LEMMA DoneAppend ==
  ASSUME TypeOK, NEW x \in Instr, executed' = Append(executed, x)
  PROVE  Done' = Done \cup {x} /\ executed' \in Seq(Instr)
  <1>1. executed \in Seq(Instr) /\ Len(executed) \in Nat
    BY DEF TypeOK
  <1>2. /\ executed' \in Seq(Instr) /\ Len(executed') = Len(executed) + 1
        /\ \A i \in 1..Len(executed) : executed'[i] = executed[i]
        /\ executed'[Len(executed) + 1] = x
    BY <1>1
  <1>3. Done' \subseteq Done \cup {x}
    <2>1. ASSUME NEW i \in 1..Len(executed') PROVE executed'[i] \in Done \cup {x}
      BY <1>1, <1>2, <2>1 DEF Done
    <2>. QED  BY <2>1 DEF Done
  <1>4. \A i \in 1..Len(executed) : i \in 1..Len(executed') /\ executed[i] = executed'[i]
    BY <1>1, <1>2
  <1>5. Len(executed) + 1 \in 1..Len(executed')
    BY <1>1, <1>2
  <1>6. Done \cup {x} \subseteq Done'
    BY <1>2, <1>4, <1>5 DEF Done
  <1>. QED  BY <1>2, <1>3, <1>6

(* What is done are instructions.                                            *)
LEMMA DoneType == TypeOK => Done \subseteq Instr
  BY DEF TypeOK, Done

(* Scan draws a number of its own client above all it sees.                  *)
LEMMA ScanFacts ==
  ASSUME TypeOK, ClientsInv, PlaceInv, NumberInv, NEW c \in Clients, Scan(c)
  PROVE  \E seq \in Seqs :
           /\ seq <= Cardinality(Begun) + 1
           /\ \A s \in Seqs : inbox[s] # NONE => s < seq
           /\ MovesTo(c, [pc |-> "scanned", k |-> client[c].k, seq |-> seq])
           /\ seqOf' = [seqOf EXCEPT ![Sending(c)] = seq]
           /\ seqOf[Sending(c)] = 0 /\ Sending(c) \in Instr
           /\ earlier' = [earlier EXCEPT ![Sending(c)] = sent]
           /\ client[c].pc = "next"
           /\ UNCHANGED <<files, server, starts, answer, executed, sent, cutOff>>
  <1>. DEFINE seen == Names(inbox) \cup Names(outbox)
              seq  == IF seen = {} THEN 1 ELSE Max(seen) + 1
  <1>1. /\ client[c].pc = "next" /\ client[c].k <= PerClient
        /\ client' = [client EXCEPT ![c].pc = "scanned", ![c].seq = seq]
        /\ seqOf' = [seqOf EXCEPT ![Sending(c)] = seq]
        /\ earlier' = [earlier EXCEPT ![Sending(c)] = sent]
        /\ UNCHANGED <<files, server, starts, answer, executed, sent, cutOff>>
    BY DEF Scan
  <1>2. seen \subseteq Seqs /\ seen \in SUBSET Nat
    BY SeqsNat DEF Names
  <1>3. \A s \in seen : s <= Cardinality(Begun)
    <2>1. ASSUME NEW s \in Seqs, inbox[s] # NONE PROVE s <= Cardinality(Begun)
      <3>1. inbox[s] \in Instr
        BY <2>1 DEF TypeOK, Dir
      <3>. QED  BY <2>1, <3>1 DEF PlaceInv, NumberInv
    <2>2. ASSUME NEW s \in Seqs, outbox[s] # NONE PROVE s <= Cardinality(Begun)
      BY <2>2 DEF NumberInv
    <2>. QED  BY <2>1, <2>2 DEF Names
  <1>4. /\ Sending(c) \in Instr /\ client[c].k \in 1..PerClient /\ Sending(c) = <<c, client[c].k>>
    BY <1>1, ClientFields
  <1>5. seqOf[Sending(c)] = 0
    BY <1>1, <1>4 DEF ClientsInv
  <1>6. Cardinality(Begun) + 1 <= Cardinality(Instr)
    <2>1. Sending(c) \notin Begun /\ Begun \cup {Sending(c)} \in SUBSET Instr
      BY <1>4, <1>5 DEF Begun
    <2>2. Cardinality(Begun \cup {Sending(c)}) = Cardinality(Begun) + 1
      BY <2>1, BegunFinite, FS_AddElement
    <2>. QED  BY <2>1, <2>2, InstrFinite, FS_Subset
  <1>7. seq \in Nat /\ seq >= 1 /\ seq <= Cardinality(Begun) + 1 /\ \A s \in seen : s < seq
    <2>1. CASE seen = {}
      BY <2>1, BegunFinite
    <2>2. CASE seen # {}
      <3>1. Max(seen) \in seen /\ \A s \in seen : Max(seen) >= s
        BY <1>2, <1>3, <2>2, MaxFacts, BegunFinite
      <3>2. Max(seen) \in Nat /\ Max(seen) <= Cardinality(Begun) /\ seq = Max(seen) + 1
        BY <1>2, <1>3, <2>2, <3>1
      <3>. HIDE DEF seen
      <3>3. \A s \in seen : s \in Nat
        BY <1>2
      <3>. QED  BY <3>1, <3>2, <3>3, BegunFinite
    <2>. QED  BY <2>1, <2>2
  <1>8. seq \in Seqs
    <2>. HIDE DEF seq
    <2>. QED  BY <1>6, <1>7, BegunFinite, InstrFinite DEF Seqs
  <1>9. \A s \in Seqs : inbox[s] # NONE => s < seq
    BY <1>7 DEF Names
  <1>. HIDE DEF seq, seen
  <1>10. MovesTo(c, [pc |-> "scanned", k |-> client[c].k, seq |-> seq])
    <2>1. client \in [Clients -> ClientState]
      BY DEF TypeOK, ClientState
    <2>2. client'[c] = [pc |-> "scanned", k |-> client[c].k, seq |-> seq]
      BY <1>1, <2>1 DEF ClientState
    <2>3. \A d \in Clients : d # c => client'[d] = client[d]
      BY <1>1, <2>1
    <2>4. client' = [client EXCEPT ![c] = client'[c]]
      BY <1>1, <2>1
    <2>. QED  BY <2>2, <2>3, <2>4 DEF MovesTo
  <1>. QED  BY <1>1, <1>4, <1>5, <1>7, <1>8, <1>9, <1>10

(* The steps of the server, and those that change nothing.                   *)
ServerStep ==
  \/ Start \/ ClearOutbox \/ Announce \/ ReadOldest \/ Take \/ Publish \/ WorkerDies
  \/ Crash \/ Stop \/ Quiescent \/ UNCHANGED vars

(* Every step is a client's, the server's or the operator's. *)
LEMMA StepKinds ==
  [Next]_vars =>
    \/ ServerStep
    \/ \E c \in Clients :
         \/ CheckStatus(c) \/ Scan(c) \/ WriteTemporary(c) \/ Rename(c)
         \/ ReadResult(c) \/ GiveUp(c)
  BY DEF Next, ServerStep, ClientStep

(* They leave the clients and their temporary files alone.                   *)
LEMMA ServerKeeps == ServerStep => UNCHANGED <<tmp, client, seqOf, earlier>>
  BY DEF ServerStep, Start, ClearOutbox, Announce, ReadOldest, Take, Publish, WorkerDies, Crash, Stop,
         Quiescent, vars, files, history

(* ReadOldest: the instruction under the least number in the inbox.          *)
LEMMA ReadFacts ==
  ASSUME TypeOK, ReadOldest
  PROVE  \E s \in Seqs :
           /\ inbox[s] # NONE /\ inbox[s] \in Instr
           /\ \A t \in Seqs : inbox[t] # NONE => s <= t
           /\ server' = [pc |-> "read", seq |-> s, instr |-> inbox[s]]
           /\ UNCHANGED <<files, client, starts, answer, history>>
  <1>1. Names(inbox) \in SUBSET Nat /\ Names(inbox) # {}
    BY SeqsNat DEF Names, ReadOldest
  <1>2. Min(Names(inbox)) \in Names(inbox) /\ \A t \in Names(inbox) : Min(Names(inbox)) <= t
    BY <1>1, MinFacts
  <1>3. Min(Names(inbox)) \in Seqs /\ inbox[Min(Names(inbox))] # NONE
    BY <1>2 DEF Names
  <1>4. inbox[Min(Names(inbox))] \in Instr
    BY <1>3 DEF TypeOK, Dir
  <1>5. \A t \in Seqs : inbox[t] # NONE => Min(Names(inbox)) <= t
    BY <1>2 DEF Names
  <1>6. /\ server' = [pc |-> "read", seq |-> Min(Names(inbox)), instr |-> inbox[Min(Names(inbox))]]
        /\ UNCHANGED <<files, client, starts, answer, history>>
    BY DEF ReadOldest
  <1>. QED  BY <1>3, <1>4, <1>5, <1>6

(* The state of a client after its step has the type of one.                 *)
LEMMA MovesType ==
  ASSUME TypeOK, NEW c \in Clients, NEW next \in ClientState, MovesTo(c, next)
  PROVE  client' \in [Clients -> ClientState]
  <1>1. client \in [Clients -> ClientState]
    BY DEF TypeOK, ClientState
  <1>. QED  BY <1>1 DEF MovesTo

(* The types of the variables that are no booleans.                          *)
DataOK ==
  /\ inbox \in Dir /\ tmp \in Dir /\ outbox \in Dir
  /\ client \in [Clients -> ClientState]
  /\ server \in [pc : {"down", "reset", "booting", "idle", "read", "busy"}, seq : Seqs \cup {0},
                 instr : Instr \cup {NONE}]
  /\ starts \in 0..MaxStarts
  /\ answer \in [Instr -> Instr \cup {NONE, TIMEOUT}]
  /\ executed \in Seq(Instr)
  /\ sent \subseteq Instr
  /\ seqOf \in [Instr -> Seqs \cup {0}]
  /\ earlier \in [Instr -> SUBSET Instr]
  /\ cutOff \subseteq Seqs \cup {0}

(* The type invariant, its Boolean part apart. *)
LEMMA TypeParts == TypeOK <=> DataOK /\ ready \in BOOLEAN
  <1>1. TypeOK => DataOK
    BY DEF TypeOK, DataOK, ClientState
  <1>2. TypeOK => ready \in BOOLEAN
    BY DEF TypeOK
  <1>3. DataOK /\ ready \in BOOLEAN => TypeOK
    BY Zenon DEF TypeOK, DataOK, ClientState
  <1>. QED  BY <1>1, <1>2, <1>3, Zenon

(* The server's steps keep the types.                                        *)
LEMMA TypeServer == TypeOK /\ PlaceInv /\ ServerStep => DataOK'
  <1> SUFFICES ASSUME TypeOK, PlaceInv, ServerStep PROVE DataOK'
    OBVIOUS
  <1>0. DataOK
    BY TypeParts
  <1>1. Empty \in Dir
    BY DEF Empty, Dir
  <1>2. CASE Start
    BY <1>0, <1>1, <1>2, StartsAssumption DEF Start, DataOK
  <1>3. CASE ClearOutbox
    BY <1>0, <1>1, <1>3 DEF ClearOutbox, DataOK, history
  <1>4. CASE Announce
    BY <1>0, <1>4 DEF Announce, DataOK, history
  <1>5. CASE ReadOldest
    BY <1>0, <1>5, ReadFacts DEF DataOK, history, files
  <1>6. CASE Take
    <2>1. server.instr \in Instr
      BY <1>0, <1>6 DEF Take, PlaceInv, DataOK
    <2>2. executed' \in Seq(Instr)
      BY <1>6, <2>1, DoneAppend DEF Take
    <2>3. inbox' \in Dir
      BY <1>0, <1>6 DEF Take, Dir, DataOK
    <2>4. server' \in [pc : {"down", "reset", "booting", "idle", "read", "busy"}, seq : Seqs \cup {0},
                       instr : Instr \cup {NONE}]
      BY <1>0, <1>6 DEF Take, DataOK
    <2>. QED  BY <1>0, <1>6, <2>2, <2>3, <2>4 DEF Take, DataOK
  <1>7. CASE Publish
    <2>1. server.instr \in Instr
      BY <1>0, <1>7, DoneType DEF Publish, PlaceInv
    <2>2. outbox' \in Dir
      BY <1>0, <1>7, <2>1 DEF Publish, Dir, DataOK
    <2>. QED  BY <1>0, <1>7, <2>2 DEF Publish, DataOK, history
  <1>8. CASE Crash \/ Stop
    BY <1>0, <1>8 DEF Crash, Stop, DataOK, history, files
  <1>9. CASE Quiescent \/ UNCHANGED vars
    BY <1>0, <1>9 DEF Quiescent, vars, DataOK, history, files
  <1>10. CASE WorkerDies
    BY <1>0, <1>10 DEF WorkerDies, DataOK, files
  <1>. QED  BY <1>2, <1>3, <1>4, <1>5, <1>6, <1>7, <1>8, <1>9, <1>10 DEF ServerStep

(* The clients' steps keep the types.                                        *)
LEMMA TypeClient ==
  ASSUME TypeOK, ClientsInv, PlaceInv, NumberInv, NEW c \in Clients
  PROVE  CheckStatus(c) \/ Scan(c) \/ WriteTemporary(c) \/ Rename(c) \/ ReadResult(c) \/ GiveUp(c)
           => DataOK'
  <1>0. DataOK /\ client[c] \in ClientState
    BY TypeParts DEF DataOK
  <1>1. /\ client[c].k \in 1..(PerClient + 1) /\ client[c].seq \in Seqs \cup {0}
    BY <1>0 DEF ClientState
  <1>2. ASSUME NEW pc \in ClientPC, NEW k \in 1..(PerClient + 1), NEW seq \in Seqs \cup {0},
               MovesTo(c, [pc |-> pc, k |-> k, seq |-> seq])
        PROVE  client' \in [Clients -> ClientState]
    <2>1. [pc |-> pc, k |-> k, seq |-> seq] \in ClientState
      BY DEF ClientState
    <2>. QED  BY <1>2, <2>1, MovesType
  <1>3. ASSUME CheckStatus(c) PROVE DataOK'
    <2>1. client' \in [Clients -> ClientState]
      BY <1>1, <1>2, <1>3, ClientMoves DEF ClientPC
    <2>. QED  BY <1>0, <1>3, <2>1 DEF CheckStatus, DataOK, files, history
  <1>4. ASSUME Scan(c) PROVE DataOK'
    <2>1. PICK seq \in Seqs :
           /\ MovesTo(c, [pc |-> "scanned", k |-> client[c].k, seq |-> seq])
           /\ seqOf' = [seqOf EXCEPT ![Sending(c)] = seq]
           /\ Sending(c) \in Instr
           /\ earlier' = [earlier EXCEPT ![Sending(c)] = sent]
           /\ UNCHANGED <<files, server, starts, answer, executed, sent, cutOff>>
      BY <1>4, ScanFacts
    <2>2. client' \in [Clients -> ClientState]
      BY <1>1, <1>2, <2>1 DEF ClientPC
    <2>3. seqOf' \in [Instr -> Seqs \cup {0}] /\ earlier' \in [Instr -> SUBSET Instr]
      BY <1>0, <2>1 DEF DataOK
    <2>. QED  BY <1>0, <2>1, <2>2, <2>3 DEF DataOK, files
  <1>5. ASSUME WriteTemporary(c) PROVE DataOK'
    <2>1. client' \in [Clients -> ClientState]
      BY <1>1, <1>2, <1>5, ClientMoves DEF ClientPC
    <2>2. Sending(c) \in Instr
      BY <1>5, ClientFields DEF WriteTemporary, ClientsInv
    <2>3. tmp' \in Dir
      BY <1>0, <1>5, <2>2 DEF WriteTemporary, DataOK, Dir
    <2>. QED  BY <1>0, <1>5, <2>1, <2>3 DEF WriteTemporary, DataOK, history
  <1>6. ASSUME Rename(c) PROVE DataOK'
    <2>1. client' \in [Clients -> ClientState]
      BY <1>1, <1>2, <1>6, ClientMoves DEF ClientPC
    <2>2. client[c].seq \in Seqs
      BY <1>6 DEF Rename, ClientsInv
    <2>3. inbox' \in Dir /\ tmp' \in Dir /\ sent' \subseteq Instr
      BY <1>0, <1>6, <2>2 DEF Rename, DataOK, Dir
    <2>. QED  BY <1>0, <1>6, <2>1, <2>3 DEF Rename, DataOK
  <1>7. ASSUME ReadResult(c) \/ GiveUp(c) PROVE DataOK'
    <2>1. client[c].pc = "await"
      BY <1>7 DEF ReadResult, GiveUp
    <2>2. /\ client[c].k <= PerClient /\ client[c].seq \in Seqs /\ Sending(c) \in Instr
      BY <2>1, ClientFields DEF ClientsInv
    <2>3. client[c].k + 1 \in 1..(PerClient + 1)
      BY <1>1, <2>2, PerClientAssumption
    <2>4. client' \in [Clients -> ClientState]
      BY <1>1, <1>2, <1>7, <2>3, ClientMoves DEF ClientPC
    <2>5. \E result \in Instr \cup {NONE, TIMEOUT} : Answered(c, result)
      <3>1. outbox[client[c].seq] \in Instr \cup {NONE}
        BY <1>0, <2>2 DEF DataOK, Dir
      <3>. QED  BY <1>7, <3>1 DEF ReadResult, GiveUp
    <2>6. answer' \in [Instr -> Instr \cup {NONE, TIMEOUT}]
      BY <1>0, <2>2, <2>5 DEF Answered, DataOK
    <2>. QED  BY <1>0, <2>4, <2>5, <2>6 DEF Answered, DataOK, files, history
  <1>. QED  BY <1>3, <1>4, <1>5, <1>6, <1>7

(* Every step keeps the types.                                               *)
LEMMA TypeNext ==
  TypeOK /\ ClientsInv /\ PlaceInv /\ NumberInv /\ [Next]_vars => TypeOK'
  <1> SUFFICES ASSUME TypeOK, ClientsInv, PlaceInv, NumberInv, [Next]_vars PROVE TypeOK'
    OBVIOUS
  <1>1. DataOK'
    BY StepKinds, TypeServer, TypeClient
  <1>2. ready' \in BOOLEAN
    <2>1. ready \in BOOLEAN
      BY TypeParts
    <2>2. ready' = ready \/ ready' = TRUE \/ ready' = FALSE
      <3>1. ServerStep => ready' = ready \/ ready' = TRUE \/ ready' = FALSE
        BY DEF ServerStep, Start, ClearOutbox, Announce, ReadOldest, Take, Publish, WorkerDies, Crash, Stop,
               Quiescent, vars, files
      <3>2. \A c \in Clients : CheckStatus(c) \/ Scan(c) \/ WriteTemporary(c) \/ Rename(c)
                                 \/ ReadResult(c) \/ GiveUp(c) => ready' = ready
        BY DEF CheckStatus, Scan, WriteTemporary, Rename, ReadResult, GiveUp, Answered, files
      <3>. QED  BY <3>1, <3>2, StepKinds
    <2>. QED  BY <2>1, <2>2, Zenon
  <1>. QED  BY <1>1, <1>2, Zenon DEF TypeOK, DataOK, ClientState

(* What was written stays written.                                           *)
LEMMA WrittenStays ==
  ASSUME TypeOK, [Next]_vars, NEW x \in Instr, Written(x)
  PROVE  Written(x)'
  <1>. DEFINE c == x[1]
  <1>0. c \in Clients /\ x[2] \in Nat /\ client[c].k \in Nat
    BY InstrFinite, ClientFields, PerClientAssumption
  <1>1. CASE client'[c] = client[c]
    BY <1>1 DEF Written
  <1>2. ASSUME NEW pc, NEW seq, MovesTo(c, [pc |-> pc, k |-> client[c].k, seq |-> seq]),
               pc \in {"written", "await", "crashed"} \/ client[c].pc \notin {"written", "await", "crashed"}
        PROVE  Written(x)'
    <2>1. client'[c].k = client[c].k /\ client'[c].pc = pc
      BY <1>2 DEF MovesTo
    <2>. QED  BY <1>2, <2>1 DEF Written
  <1>3. CASE ServerStep
    BY <1>1, <1>3, ServerKeeps
  <1>4. ASSUME NEW d \in Clients, CheckStatus(d) PROVE Written(x)'
    <2>1. CASE d = c
      BY <1>2, <1>4, <2>1, ClientMoves DEF CheckStatus
    <2>2. CASE d # c
      BY <1>0, <1>1, <1>4, <2>2, ClientMoves DEF MovesTo
    <2>. QED  BY <2>1, <2>2
  <1>5. ASSUME NEW d \in Clients, Scan(d) PROVE Written(x)'
    <2>1. CASE d = c
      BY <1>2, <1>5, <2>1, ClientMoves DEF Scan
    <2>2. CASE d # c
      BY <1>0, <1>1, <1>5, <2>2, ClientMoves DEF MovesTo
    <2>. QED  BY <2>1, <2>2
  <1>6. ASSUME NEW d \in Clients, WriteTemporary(d) PROVE Written(x)'
    <2>1. CASE d = c
      BY <1>2, <1>6, <2>1, ClientMoves
    <2>2. CASE d # c
      BY <1>0, <1>1, <1>6, <2>2, ClientMoves DEF MovesTo
    <2>. QED  BY <2>1, <2>2
  <1>7. ASSUME NEW d \in Clients, Rename(d) PROVE Written(x)'
    <2>1. CASE d = c
      BY <1>2, <1>7, <2>1, ClientMoves
    <2>2. CASE d # c
      BY <1>0, <1>1, <1>7, <2>2, ClientMoves DEF MovesTo
    <2>. QED  BY <2>1, <2>2
  <1>8. ASSUME NEW d \in Clients, ReadResult(d) \/ GiveUp(d) PROVE Written(x)'
    <2>1. CASE d = c
      <3>0. \E pc : MovesTo(c, [pc |-> pc, k |-> client[c].k + 1, seq |-> client[c].seq])
        BY <1>8, <2>1, ClientMoves
      <3>1. client'[c].k = client[c].k + 1
        BY <3>0 DEF MovesTo
      <3>2. x[2] <= client[c].k
        BY <1>0 DEF Written
      <3>. QED  BY <1>0, <3>1, <3>2 DEF Written
    <2>2. CASE d # c
      BY <1>0, <1>1, <1>8, <2>2, ClientMoves DEF MovesTo
    <2>. QED  BY <2>1, <2>2
  <1>. QED  BY <1>3, <1>4, <1>5, <1>6, <1>7, <1>8, StepKinds

(* What of ClientsInv is about one client.                                   *)
ClientOK(c) ==
  /\ client[c].pc \in {"start", "next", "scanned", "written", "await", "crashed"} =>
       client[c].k <= PerClient
  /\ client[c].pc \in {"scanned", "written", "await", "crashed"} =>
       client[c].seq \in Seqs /\ seqOf[Sending(c)] = client[c].seq
  /\ \A k \in 1..PerClient :
       /\ k < client[c].k => seqOf[<<c, k>>] \in Seqs
       /\ k > client[c].k \/ (k = client[c].k /\ client[c].pc \in {"start", "next"}) =>
            seqOf[<<c, k>>] = 0 /\ earlier[<<c, k>>] = {}

(* Every step keeps the clients' numbers in order.                           *)
LEMMA ClientsNext ==
  TypeOK /\ ClientsInv /\ PlaceInv /\ NumberInv /\ [Next]_vars => ClientsInv'
  <1> SUFFICES ASSUME TypeOK, ClientsInv, PlaceInv, NumberInv, [Next]_vars, NEW c \in Clients
               PROVE  ClientOK(c)'
    BY DEF ClientsInv, ClientOK
  <1>0. /\ client[c].k \in 1..(PerClient + 1) /\ Sending(c) = <<c, client[c].k>>
        /\ ClientOK(c) /\ PerClient \in Nat
    BY ClientFields, PerClientAssumption DEF ClientsInv, ClientOK
  <1>1. ASSUME client'[c] = client[c],
               \A k \in 1..PerClient : /\ seqOf'[<<c, k>>] = seqOf[<<c, k>>]
                                       /\ earlier'[<<c, k>>] = earlier[<<c, k>>]
        PROVE  ClientOK(c)'
    <2>1. client[c].k <= PerClient => client[c].k \in 1..PerClient
      BY <1>0
    <2>2. Sending(c)' = Sending(c)
      BY <1>1 DEF Sending
    <2>. QED  BY <1>0, <1>1, <2>1, <2>2 DEF ClientOK
  <1>2. ASSUME NEW pc, NEW k, MovesTo(c, [pc |-> pc, k |-> k, seq |-> client[c].seq])
        PROVE  client'[c].pc = pc /\ client'[c].k = k /\ client'[c].seq = client[c].seq
    BY <1>2 DEF MovesTo
  <1>3. CASE ServerStep
    BY <1>1, <1>3, ServerKeeps
  <1>4. ASSUME NEW d \in Clients, d # c,
               \/ CheckStatus(d) \/ WriteTemporary(d) \/ Rename(d) \/ ReadResult(d) \/ GiveUp(d)
        PROVE  ClientOK(c)'
    <2>1. UNCHANGED <<seqOf, earlier>>
      BY <1>4 DEF CheckStatus, WriteTemporary, Rename, ReadResult, GiveUp, Answered, history
    <2>2. client'[c] = client[c]
      BY <1>4, ClientMoves DEF MovesTo
    <2>. QED  BY <1>1, <2>1, <2>2
  <1>5. ASSUME NEW d \in Clients, d # c, Scan(d) PROVE ClientOK(c)'
    <2>1. PICK seq \in Seqs :
            /\ MovesTo(d, [pc |-> "scanned", k |-> client[d].k, seq |-> seq])
            /\ seqOf' = [seqOf EXCEPT ![Sending(d)] = seq]
            /\ earlier' = [earlier EXCEPT ![Sending(d)] = sent]
      BY <1>5, ScanFacts
    <2>2. client'[c] = client[c]
      BY <1>5, <2>1 DEF MovesTo
    <2>3. \A k \in 1..PerClient : <<c, k>> \in Instr /\ <<c, k>> # Sending(d)
      BY <1>5, InstrFinite DEF Sending
    <2>4. \A k \in 1..PerClient : /\ seqOf'[<<c, k>>] = seqOf[<<c, k>>]
                                  /\ earlier'[<<c, k>>] = earlier[<<c, k>>]
      BY <2>1, <2>3 DEF TypeOK
    <2>. QED  BY <1>1, <2>2, <2>4
  <1>6. ASSUME Scan(c) PROVE ClientOK(c)'
    <2>1. PICK seq \in Seqs :
            /\ MovesTo(c, [pc |-> "scanned", k |-> client[c].k, seq |-> seq])
            /\ seqOf' = [seqOf EXCEPT ![Sending(c)] = seq]
            /\ Sending(c) \in Instr /\ client[c].pc = "next"
            /\ earlier' = [earlier EXCEPT ![Sending(c)] = sent]
      BY <1>6, ScanFacts
    <2>2. /\ client'[c].pc = "scanned" /\ client'[c].k = client[c].k /\ client'[c].seq = seq
          /\ Sending(c)' = Sending(c)
      BY <2>1 DEF MovesTo, Sending
    <2>3. seqOf'[Sending(c)] = seq
      BY <2>1 DEF TypeOK
    <2>4. \A k \in 1..PerClient : k # client[c].k =>
            seqOf'[<<c, k>>] = seqOf[<<c, k>>] /\ earlier'[<<c, k>>] = earlier[<<c, k>>]
      <3>1. \A k \in 1..PerClient : k # client[c].k => <<c, k>> \in Instr /\ <<c, k>> # Sending(c)
        BY <1>0, InstrFinite
      <3>. QED  BY <2>1, <3>1 DEF TypeOK
    <2>5. client[c].k <= PerClient
      BY <1>0, <2>1 DEF ClientOK
    <2>6. ASSUME NEW k \in 1..PerClient
          PROVE  /\ k < client[c].k => seqOf'[<<c, k>>] \in Seqs
                 /\ k > client[c].k => seqOf'[<<c, k>>] = 0 /\ earlier'[<<c, k>>] = {}
      <3>1. k < client[c].k \/ k > client[c].k => k # client[c].k
        BY <1>0
      <3>. QED  BY <1>0, <2>4, <3>1 DEF ClientOK
    <2>. QED  BY <2>1, <2>2, <2>3, <2>5, <2>6 DEF ClientOK
  <1>7. ASSUME CheckStatus(c) \/ WriteTemporary(c) \/ Rename(c) PROVE ClientOK(c)'
    <2>1. UNCHANGED <<seqOf, earlier>>
      BY <1>7 DEF CheckStatus, WriteTemporary, Rename, history
    <2>2. /\ client'[c].k = client[c].k /\ client'[c].seq = client[c].seq
          /\ \/ client[c].pc = "start" /\ client'[c].pc \in {"next", "done"}
             \/ /\ client[c].pc \in {"scanned", "written"}
                /\ client'[c].pc \in {"written", "await", "crashed"}
      <3>1. CASE CheckStatus(c)
        BY <1>2, <3>1, ClientMoves DEF CheckStatus
      <3>2. CASE WriteTemporary(c)
        BY <1>2, <3>2, ClientMoves DEF WriteTemporary
      <3>3. CASE Rename(c)
        BY <1>2, <3>3, ClientMoves DEF Rename
      <3>. QED  BY <1>7, <3>1, <3>2, <3>3
    <2>3. Sending(c)' = Sending(c)
      BY <2>2 DEF Sending
    <2>. QED  BY <1>0, <2>1, <2>2, <2>3 DEF ClientOK
  <1>8. ASSUME ReadResult(c) \/ GiveUp(c) PROVE ClientOK(c)'
    <2>1. UNCHANGED <<seqOf, earlier>> /\ client[c].pc = "await"
      BY <1>8 DEF ReadResult, GiveUp, Answered, history
    <2>2. PICK pc \in {"next", "done"} :
            /\ pc = "next" => client[c].k < PerClient
            /\ MovesTo(c, [pc |-> pc, k |-> client[c].k + 1, seq |-> client[c].seq])
      BY <1>8, ClientMoves
    <2>3. client'[c].k = client[c].k + 1 /\ client'[c].pc = pc
      BY <1>2, <2>2
    <2>4. /\ client[c].k <= PerClient /\ client[c].seq \in Seqs
          /\ seqOf[<<c, client[c].k>>] = client[c].seq
      BY <1>0, <2>1 DEF ClientOK
    <2>5. ASSUME NEW k \in 1..PerClient
          PROVE  /\ k < client[c].k + 1 => seqOf[<<c, k>>] \in Seqs
                 /\ k >= client[c].k + 1 => seqOf[<<c, k>>] = 0 /\ earlier[<<c, k>>] = {}
      <3>1. k < client[c].k + 1 => k < client[c].k \/ k = client[c].k
        BY <1>0
      <3>2. k >= client[c].k + 1 => k > client[c].k
        BY <1>0
      <3>. QED  BY <1>0, <2>4, <3>1, <3>2 DEF ClientOK
    <2>6. pc = "next" => client[c].k + 1 <= PerClient
      BY <1>0, <2>2
    <2>7. \A k \in 1..PerClient : k > client[c].k + 1 => k >= client[c].k + 1
      BY <1>0
    <2>8. \A k \in 1..PerClient : k = client[c].k + 1 => k >= client[c].k + 1
      BY <1>0
    <2>. QED  BY <2>1, <2>2, <2>3, <2>5, <2>6, <2>7, <2>8 DEF ClientOK
  <1>. QED  BY <1>3, <1>4, <1>5, <1>6, <1>7, <1>8, StepKinds

(* What is written has a number.                                             *)
LEMMA WrittenNumbered ==
  ASSUME TypeOK, ClientsInv, NEW x \in Instr, Written(x)
  PROVE  seqOf[x] \in Seqs
  <1>1. x[1] \in Clients /\ x[2] \in 1..PerClient /\ x = <<x[1], x[2]>>
    BY InstrFinite
  <1>2. CASE x[2] < client[x[1]].k
    BY <1>1, <1>2 DEF ClientsInv
  <1>3. CASE x[2] = client[x[1]].k /\ client[x[1]].pc \in {"written", "await", "crashed"}
    BY <1>1, <1>3 DEF ClientsInv, Sending
  <1>. QED  BY <1>2, <1>3 DEF Written

(* An instruction that is still to be written is nowhere.                    *)
LEMMA NotWrittenYet ==
  ASSUME TypeOK, NEW c \in Clients, client[c].pc \in {"next", "scanned"}
  PROVE  ~Written(Sending(c))
  <1>1. client[c].k \in Nat /\ Sending(c) = <<c, client[c].k>>
    BY ClientFields, PerClientAssumption
  <1>. QED  BY <1>1 DEF Written

(* The number of a written instruction, and what was sent before its submit, *)
(* are settled.                                                              *)
LEMMA WrittenKeeps ==
  ASSUME TypeOK, ClientsInv, PlaceInv, NumberInv, [Next]_vars, NEW x \in Instr, Written(x)
  PROVE  Written(x)' /\ seqOf'[x] = seqOf[x] /\ earlier'[x] = earlier[x]
  <1>1. CASE UNCHANGED <<seqOf, earlier>>
    BY <1>1, WrittenStays
  <1>2. ASSUME NEW c \in Clients, Scan(c)
        PROVE  seqOf'[x] = seqOf[x] /\ earlier'[x] = earlier[x]
    <2>1. PICK seq \in Seqs :
            /\ seqOf' = [seqOf EXCEPT ![Sending(c)] = seq]
            /\ earlier' = [earlier EXCEPT ![Sending(c)] = sent]
            /\ client[c].pc = "next"
      BY <1>2, ScanFacts
    <2>2. x # Sending(c)
      BY <2>1, NotWrittenYet
    <2>. QED  BY <2>1, <2>2 DEF TypeOK
  <1>3. CASE ServerStep
    BY <1>1, <1>3, ServerKeeps
  <1>4. ASSUME NEW c \in Clients,
               CheckStatus(c) \/ WriteTemporary(c) \/ Rename(c) \/ ReadResult(c) \/ GiveUp(c)
        PROVE  UNCHANGED <<seqOf, earlier>>
    BY <1>4 DEF CheckStatus, WriteTemporary, Rename, ReadResult, GiveUp, Answered, history
  <1>. QED  BY <1>1, <1>2, <1>3, <1>4, StepKinds, WrittenStays

(* Every instruction stays where it belongs.                                 *)
LEMMA PlaceNext ==
  TypeOK /\ ClientsInv /\ PlaceInv /\ NumberInv /\ [Next]_vars => PlaceInv'
  <1> SUFFICES ASSUME TypeOK, ClientsInv, PlaceInv, NumberInv, [Next]_vars PROVE PlaceInv'
    OBVIOUS
  <1>. DEFINE
         IsWritten(x) ==
           \/ x[2] < client'[x[1]].k
           \/ x[2] = client'[x[1]].k /\ client'[x[1]].pc \in {"written", "await", "crashed"}
         TmpOK ==
           \A s \in Seqs : tmp'[s] # NONE =>
             s = seqOf'[tmp'[s]] /\ IsWritten(tmp'[s]) /\ tmp'[s] \notin Done' \cup sent'
         InboxOK ==
           \A s \in Seqs : inbox'[s] # NONE => s = seqOf'[inbox'[s]] /\ inbox'[s] \in sent' \ Done'
         SentOK == \A x \in sent' \cup Done' : IsWritten(x)
         ServerOK ==
           /\ server'.pc = "read" => server'.instr \in sent' \ Done'
           /\ server'.pc = "busy" => server'.instr \in Done'
           /\ server'.pc \in {"read", "busy"} => server'.seq = seqOf'[server'.instr]
           /\ server'.pc \notin {"read", "busy"} => server'.instr = NONE
  <1>0. /\ \A s \in Seqs : tmp[s] # NONE => tmp[s] \in Instr
        /\ \A s \in Seqs : inbox[s] # NONE => inbox[s] \in Instr
        /\ sent \subseteq Instr /\ Done \subseteq Instr
        /\ server.pc \in {"read", "busy"} => server.instr \in Instr
    <2>1. /\ \A s \in Seqs : tmp[s] # NONE => tmp[s] \in Instr
          /\ \A s \in Seqs : inbox[s] # NONE => inbox[s] \in Instr
      BY DEF TypeOK, Dir
    <2>2. sent \subseteq Instr /\ Done \subseteq Instr
      BY DoneType DEF TypeOK
    <2>. QED  BY <2>1, <2>2 DEF PlaceInv
  <1>1. \A x \in Instr : Written(x) => IsWritten(x) /\ seqOf'[x] = seqOf[x]
    BY WrittenKeeps DEF Written
  <1>2. ASSUME TmpOK, InboxOK, SentOK, ServerOK PROVE PlaceInv'
    BY <1>2 DEF PlaceInv, Written
  <1>. HIDE DEF IsWritten
  <1>3. \A x \in sent \cup Done : IsWritten(x)
    BY <1>0, <1>1 DEF PlaceInv
  <1>4. \A s \in Seqs : tmp[s] # NONE =>
          s = seqOf'[tmp[s]] /\ IsWritten(tmp[s]) /\ tmp[s] \notin Done \cup sent
    BY <1>0, <1>1 DEF PlaceInv
  <1>5. \A s \in Seqs : inbox[s] # NONE => s = seqOf'[inbox[s]] /\ inbox[s] \in sent \ Done
    BY <1>0, <1>1 DEF PlaceInv
  <1>6. server.pc \in {"read", "busy"} => server.seq = seqOf'[server.instr]
    BY <1>0, <1>1 DEF PlaceInv
  <1>. HIDE DEF TmpOK, InboxOK, SentOK, ServerOK
  <1>7. ASSUME UNCHANGED <<tmp, inbox, sent, executed>>,
               \/ server' = server
               \/ server'.pc \notin {"read", "busy"} /\ server'.instr = NONE
        PROVE  PlaceInv'
    <2>1. Done' = Done
      BY <1>7 DEF Done
    <2>2. TmpOK /\ InboxOK /\ SentOK
      BY <1>3, <1>4, <1>5, <1>7, <2>1 DEF TmpOK, InboxOK, SentOK
    <2>3. ServerOK
      BY <1>6, <1>7, <2>1 DEF ServerOK, PlaceInv
    <2>. QED  BY <1>2, <2>2, <2>3
  <1>8. CASE Start
    <2>1. /\ inbox' = Empty /\ server' = [pc |-> "reset", seq |-> 0, instr |-> NONE]
          /\ sent' = {} /\ tmp' = tmp /\ Done' = Done
      BY <1>8 DEF Start, Done
    <2>2. \A s \in Seqs : inbox'[s] = NONE
      BY <2>1 DEF Empty
    <2>3. TmpOK /\ InboxOK /\ SentOK /\ ServerOK
      BY <1>3, <1>4, <2>1, <2>2 DEF TmpOK, InboxOK, SentOK, ServerOK
    <2>. QED  BY <1>2, <2>3
  <1>9. CASE ClearOutbox \/ Announce
    <2>1. UNCHANGED <<tmp, inbox, sent, executed>>
      BY <1>9 DEF ClearOutbox, Announce, history
    <2>2. server'.pc \in {"booting", "idle"} /\ server'.instr = server.instr
      BY <1>9 DEF ClearOutbox, Announce, TypeOK
    <2>3. server.instr = NONE
      BY <1>9 DEF ClearOutbox, Announce, PlaceInv
    <2>. QED  BY <1>7, <2>1, <2>2, <2>3
  <1>10. CASE ReadOldest
    <2>1. PICK s \in Seqs :
            /\ inbox[s] # NONE
            /\ server' = [pc |-> "read", seq |-> s, instr |-> inbox[s]]
            /\ UNCHANGED <<files, client, starts, answer, history>>
      BY <1>10, ReadFacts
    <2>2. UNCHANGED <<tmp, inbox, sent>> /\ Done' = Done
      BY <2>1 DEF files, history, Done
    <2>3. s = seqOf'[inbox[s]] /\ inbox[s] \in sent \ Done
      BY <1>5, <2>1
    <2>4. TmpOK /\ InboxOK /\ SentOK
      BY <1>3, <1>4, <1>5, <2>2 DEF TmpOK, InboxOK, SentOK
    <2>5. ServerOK
      BY <2>1, <2>2, <2>3 DEF ServerOK
    <2>. QED  BY <1>2, <2>4, <2>5
  <1>11. CASE Take
    <2>1. /\ server.pc = "read" /\ inbox' = [inbox EXCEPT ![server.seq] = NONE]
          /\ server' = [server EXCEPT !.pc = "busy"]
          /\ tmp' = tmp /\ sent' = sent
          /\ executed' = Append(executed, server.instr)
      BY <1>11 DEF Take
    <2>2. server.instr \in sent \ Done /\ server.seq = seqOf'[server.instr] /\ server.instr \in Instr
      BY <1>0, <1>6, <2>1 DEF PlaceInv
    <2>3. Done' = Done \cup {server.instr}
      BY <2>1, <2>2, DoneAppend
    <2>4. server'.pc = "busy" /\ server'.instr = server.instr /\ server'.seq = server.seq
      BY <2>1 DEF TypeOK
    <2>5. \A s \in Seqs : inbox'[s] # NONE => inbox'[s] = inbox[s] /\ s # server.seq
      BY <2>1 DEF TypeOK, Dir
    <2>6. InboxOK
      BY <1>5, <2>1, <2>2, <2>3, <2>5 DEF InboxOK
    <2>7. TmpOK
      BY <1>4, <2>1, <2>2, <2>3 DEF TmpOK
    <2>8. SentOK
      BY <1>3, <2>1, <2>2, <2>3 DEF SentOK
    <2>9. ServerOK
      BY <2>2, <2>3, <2>4 DEF ServerOK
    <2>. QED  BY <1>2, <2>6, <2>7, <2>8, <2>9
  <1>12. CASE Publish \/ WorkerDies \/ Crash \/ Stop
    BY <1>7, <1>12 DEF Publish, WorkerDies, Crash, Stop, files, history
  <1>13. CASE Quiescent \/ UNCHANGED vars
    BY <1>7, <1>13 DEF Quiescent, vars, files, history
  <1>14. ASSUME NEW c \in Clients, CheckStatus(c) \/ Scan(c) \/ ReadResult(c) \/ GiveUp(c)
         PROVE  PlaceInv'
    BY <1>7, <1>14 DEF CheckStatus, Scan, ReadResult, GiveUp, Answered, files, history
  <1>15. ASSUME NEW c \in Clients, WriteTemporary(c) PROVE PlaceInv'
    <2>. DEFINE x == Sending(c)
                q == client[c].seq
    <2>1. /\ client[c].pc = "scanned" /\ tmp' = [tmp EXCEPT ![q] = x]
          /\ UNCHANGED <<inbox, server, sent, seqOf>> /\ Done' = Done
      BY <1>15 DEF WriteTemporary, history, Done
    <2>2. q \in Seqs /\ seqOf[x] = q /\ x \in Instr
      BY <2>1, ClientFields DEF ClientsInv
    <2>3. x \notin Done \cup sent
      BY <2>1, NotWrittenYet DEF PlaceInv
    <2>4. IsWritten(x)
      <3>1. client'[c].k = client[c].k /\ client'[c].pc = "written"
        <4>1. MovesTo(c, [pc |-> "written", k |-> client[c].k, seq |-> client[c].seq])
          BY <1>15, ClientMoves
        <4>. QED  BY <4>1 DEF MovesTo
      <3>2. x[1] = c /\ x[2] = client[c].k
        BY DEF Sending
      <3>3. x[2] = client'[x[1]].k /\ client'[x[1]].pc \in {"written", "await", "crashed"}
        BY <3>1, <3>2, Zenon
      <3>. QED  BY <3>3, Zenon DEF IsWritten
    <2>. HIDE DEF x, q
    <2>5. \A s \in Seqs : tmp'[s] = IF s = q THEN x ELSE tmp[s]
      BY <2>1 DEF TypeOK, Dir
    <2>6. TmpOK
      <3>1. ASSUME NEW s \in Seqs, tmp'[s] # NONE, s # q
            PROVE  s = seqOf'[tmp'[s]] /\ IsWritten(tmp'[s]) /\ tmp'[s] \notin Done' \cup sent'
        BY <1>4, <2>1, <2>5, <3>1
      <3>2. ASSUME NEW s \in Seqs, s = q
            PROVE  s = seqOf'[tmp'[s]] /\ IsWritten(tmp'[s]) /\ tmp'[s] \notin Done' \cup sent'
        BY <2>1, <2>2, <2>3, <2>4, <2>5, <3>2
      <3>. QED  BY <3>1, <3>2 DEF TmpOK
    <2>7. InboxOK /\ SentOK
      BY <1>3, <1>5, <2>1 DEF InboxOK, SentOK
    <2>8. ServerOK
      BY <1>6, <2>1 DEF ServerOK, PlaceInv
    <2>. QED  BY <1>2, <2>6, <2>7, <2>8
  <1>16. ASSUME NEW c \in Clients, Rename(c) PROVE PlaceInv'
    <2>. DEFINE q == client[c].seq
    <2>1. q \in Seqs
      BY <1>16 DEF Rename, ClientsInv
    <2>2. CASE tmp[q] = NONE
      <3>1. UNCHANGED <<tmp, inbox, sent, executed, server>>
        BY <1>16, <2>2 DEF Rename
      <3>. QED  BY <1>7, <3>1
    <2>3. CASE tmp[q] # NONE
      <3>1. /\ inbox' = [inbox EXCEPT ![q] = tmp[q]] /\ tmp' = [tmp EXCEPT ![q] = NONE]
            /\ sent' = sent \cup {tmp[q]} /\ server' = server /\ Done' = Done
        BY <1>16, <2>3 DEF Rename, Done
      <3>2. q = seqOf'[tmp[q]] /\ tmp[q] \notin Done \cup sent /\ IsWritten(tmp[q])
        BY <1>4, <2>1, <2>3
      <3>. HIDE DEF q
      <3>3. /\ \A s \in Seqs : inbox'[s] = IF s = q THEN tmp[q] ELSE inbox[s]
            /\ \A s \in Seqs : tmp'[s] = IF s = q THEN NONE ELSE tmp[s]
        BY <3>1 DEF TypeOK, Dir
      <3>4. TmpOK
        <4>1. ASSUME NEW s \in Seqs, tmp'[s] # NONE
              PROVE  s # q /\ tmp'[s] = tmp[s] /\ tmp[s] # tmp[q]
          <5>1. s # q /\ tmp'[s] = tmp[s]
            BY <3>3, <4>1
          <5>2. s = seqOf'[tmp[s]]
            BY <1>4, <4>1, <5>1
          <5>. QED  BY <3>2, <5>1, <5>2
        <4>. QED  BY <1>4, <3>1, <4>1 DEF TmpOK
      <3>5. InboxOK
        BY <1>5, <3>1, <3>2, <3>3 DEF InboxOK
      <3>6. SentOK
        BY <1>3, <3>1, <3>2 DEF SentOK
      <3>7. ServerOK
        BY <1>6, <3>1 DEF ServerOK, PlaceInv
      <3>. QED  BY <1>2, <3>4, <3>5, <3>6, <3>7
    <2>. QED  BY <2>2, <2>3
  <1>. QED
    BY <1>8, <1>9, <1>10, <1>11, <1>12, <1>13, <1>14, <1>15, <1>16, StepKinds DEF ServerStep

(* The numbers stay below the submits begun.                                 *)
LEMMA NumberNext ==
  TypeOK /\ ClientsInv /\ PlaceInv /\ NumberInv /\ [Next]_vars => NumberInv'
  <1> SUFFICES ASSUME TypeOK, ClientsInv, PlaceInv, NumberInv, [Next]_vars PROVE NumberInv'
    OBVIOUS
  <1>1. ASSUME seqOf' = seqOf, \A s \in Seqs : outbox'[s] # NONE => \E x \in Instr : seqOf[x] = s
        PROVE  NumberInv'
    BY <1>1 DEF NumberInv, Begun
  <1>2. CASE outbox' = outbox /\ seqOf' = seqOf
    BY <1>1, <1>2 DEF NumberInv
  <1>3. CASE ClearOutbox
    <2>1. \A s \in Seqs : outbox'[s] = NONE
      BY <1>3 DEF ClearOutbox, Empty
    <2>2. seqOf' = seqOf
      BY <1>3 DEF ClearOutbox, history
    <2>. QED  BY <1>1, <2>1, <2>2
  <1>4. CASE Publish
    <2>1. /\ outbox' = [outbox EXCEPT ![server.seq] = server.instr] /\ seqOf' = seqOf
          /\ server.pc = "busy"
      BY <1>4 DEF Publish, history
    <2>2. server.instr \in Instr /\ server.seq = seqOf[server.instr]
      BY <2>1, DoneType DEF PlaceInv
    <2>3. ASSUME NEW s \in Seqs, outbox'[s] # NONE PROVE \E x \in Instr : seqOf[x] = s
      <3>1. CASE s = server.seq
        BY <2>2, <3>1
      <3>2. CASE s # server.seq
        <4>1. outbox'[s] = outbox[s]
          BY <2>1, <3>2 DEF TypeOK, Dir
        <4>. QED  BY <2>3, <4>1 DEF NumberInv
      <3>. QED  BY <3>1, <3>2
    <2>. QED  BY <1>1, <2>1, <2>3
  <1>5. ASSUME NEW c \in Clients, Scan(c) PROVE NumberInv'
    <2>. DEFINE x == Sending(c)
    <2>1. PICK seq \in Seqs :
           /\ seq <= Cardinality(Begun) + 1
           /\ seqOf' = [seqOf EXCEPT ![x] = seq]
           /\ seqOf[x] = 0 /\ x \in Instr
           /\ UNCHANGED <<files, server, starts, answer, executed, sent, cutOff>>
      BY <1>5, ScanFacts
    <2>. HIDE DEF x
    <2>2. /\ \A y \in Instr : seqOf'[y] = IF y = x THEN seq ELSE seqOf[y]
          /\ \A y \in Instr : seqOf[y] \in Nat
      <3>1. seqOf \in [Instr -> Seqs \cup {0}]
        BY DEF TypeOK
      <3>2. ASSUME NEW y \in Instr PROVE seqOf[y] \in Nat
        <4>1. seqOf[y] \in Seqs \cup {0}
          BY <3>1, Zenon
        <4>2. Seqs \subseteq Nat
          BY SeqsNat, Zenon
        <4>3. CASE seqOf[y] \in Seqs
          BY <4>2, <4>3, Zenon
        <4>4. CASE seqOf[y] = 0
          BY <4>4
        <4>. QED  BY <4>1, <4>3, <4>4, Zenon
      <3>3. ASSUME NEW y \in Instr PROVE seqOf'[y] = IF y = x THEN seq ELSE seqOf[y]
        BY <2>1, <3>1
      <3>. QED  BY <3>2, <3>3
    <2>3. Begun' = Begun \cup {x} /\ x \notin Begun
      <3>1. seq # 0
        BY SeqsNat
      <3>. QED  BY <2>1, <2>2, <3>1 DEF Begun
    <2>4. Cardinality(Begun') = Cardinality(Begun) + 1 /\ Cardinality(Begun) \in Nat
      BY <2>3, BegunFinite, FS_AddElement
    <2>5. \A y \in Instr : seqOf'[y] <= Cardinality(Begun')
      BY <2>1, <2>2, <2>4 DEF NumberInv
    <2>6. \A s \in Seqs : outbox'[s] # NONE => \E y \in Instr : seqOf'[y] = s
      <3> SUFFICES ASSUME NEW s \in Seqs, outbox[s] # NONE PROVE \E y \in Instr : seqOf'[y] = s
        BY <2>1 DEF files
      <3>1. PICK y \in Instr : seqOf[y] = s
        BY DEF NumberInv
      <3>2. y # x
        BY <2>1, <3>1, SeqsNat
      <3>. QED  BY <2>2, <3>1, <3>2
    <2>. QED  BY <2>5, <2>6 DEF NumberInv
  <1>6. CASE \/ Start \/ Announce \/ ReadOldest \/ Take \/ WorkerDies \/ Crash \/ Stop \/ Quiescent
             \/ UNCHANGED vars
    BY <1>2, <1>6 DEF Start, Announce, ReadOldest, Take, WorkerDies, Crash, Stop, Quiescent, vars, files, history
  <1>7. ASSUME NEW c \in Clients,
               CheckStatus(c) \/ WriteTemporary(c) \/ Rename(c) \/ ReadResult(c) \/ GiveUp(c)
        PROVE  NumberInv'
    BY <1>2, <1>7 DEF CheckStatus, WriteTemporary, Rename, ReadResult, GiveUp, Answered, files, history
  <1>. QED  BY <1>3, <1>4, <1>5, <1>6, <1>7, StepKinds DEF ServerStep

-----------------------------------------------------------------------------
(* What was sent before an instruction's submit is ahead of it in the inbox, *)
(* and no longer there once the server has the instruction.                  *)
EarlierInv ==
  /\ \A y \in Instr : \A x \in earlier[y] :
       /\ Written(x)
       /\ \A s \in Seqs : tmp[s] # x
       /\ \A s \in Seqs : inbox[s] = x => s < seqOf[y]
  /\ \A y \in Instr : y \in Done \/ (server.pc = "read" /\ y = server.instr) =>
       \A x \in earlier[y] : \A s \in Seqs : inbox[s] # x

(* It holds after every step.                                                *)
LEMMA EarlierNext ==
  TypeOK /\ ClientsInv /\ PlaceInv /\ NumberInv /\ EarlierInv /\ [Next]_vars => EarlierInv'
  <1> SUFFICES ASSUME TypeOK, ClientsInv, PlaceInv, NumberInv, EarlierInv, [Next]_vars
               PROVE  EarlierInv'
    OBVIOUS
  <1>. DEFINE
         IsWritten(x) ==
           \/ x[2] < client'[x[1]].k
           \/ x[2] = client'[x[1]].k /\ client'[x[1]].pc \in {"written", "await", "crashed"}
         AheadOK ==
           \A y \in Instr : \A x \in earlier'[y] :
             /\ IsWritten(x)
             /\ \A s \in Seqs : tmp'[s] # x
             /\ \A s \in Seqs : inbox'[s] = x => s < seqOf'[y]
         TakenOK ==
           \A y \in Instr : y \in Done' \/ (server'.pc = "read" /\ y = server'.instr) =>
             \A x \in earlier'[y] : \A s \in Seqs : inbox'[s] # x
  <1>0. /\ \A y \in Instr : earlier[y] \subseteq Instr
        /\ sent \subseteq Instr /\ Done \subseteq Instr
    BY DoneType DEF TypeOK
  <1>1. \A x \in Instr : Written(x) =>
          IsWritten(x) /\ seqOf'[x] = seqOf[x] /\ earlier'[x] = earlier[x]
    BY WrittenKeeps DEF Written
  <1>2. ASSUME AheadOK, TakenOK PROVE EarlierInv'
    BY <1>2 DEF EarlierInv, Written
  <1>. HIDE DEF IsWritten
  <1>3. \A y \in Instr : \A x \in earlier[y] :
          /\ IsWritten(x) /\ Written(x)
          /\ \A s \in Seqs : tmp[s] # x
          /\ \A s \in Seqs : inbox[s] = x => s < seqOf[y]
    BY <1>0, <1>1 DEF EarlierInv
  <1>4. \A y \in Instr : y \in Done \/ (server.pc = "read" /\ y = server.instr) =>
          \A x \in earlier[y] : \A s \in Seqs : inbox[s] # x
    BY DEF EarlierInv
  <1>. HIDE DEF AheadOK, TakenOK
  <1>5. ASSUME UNCHANGED <<tmp, seqOf, earlier>>,
               \A s \in Seqs : inbox'[s] = inbox[s] \/ inbox'[s] = NONE
        PROVE  AheadOK
    <2>1. \A y \in Instr : \A x \in earlier[y] : x # NONE
      BY <1>0, NoneFacts
    <2>. QED  BY <1>3, <1>5, <2>1 DEF AheadOK
  <1>6. ASSUME UNCHANGED <<tmp, seqOf, earlier, executed>>,
               \A s \in Seqs : inbox'[s] = inbox[s] \/ inbox'[s] = NONE,
               \/ server' = server
               \/ server'.pc # "read"
        PROVE  EarlierInv'
    <2>1. \A y \in Instr : \A x \in earlier[y] : x # NONE
      BY <1>0, NoneFacts
    <2>2. Done' = Done
      BY <1>6 DEF Done
    <2>3. TakenOK
      BY <1>4, <1>6, <2>1, <2>2 DEF TakenOK
    <2>. QED  BY <1>2, <1>5, <1>6, <2>3
  <1>7. CASE Start
    <2>1. UNCHANGED <<tmp, seqOf, earlier, executed>> /\ server'.pc # "read"
      BY <1>7 DEF Start
    <2>2. \A s \in Seqs : inbox'[s] = NONE
      BY <1>7 DEF Start, Empty
    <2>. QED  BY <1>6, <2>1, <2>2
  <1>8. CASE ClearOutbox \/ Announce \/ Publish \/ WorkerDies \/ Crash \/ Stop \/ Quiescent \/ UNCHANGED vars
    <2>1. UNCHANGED <<tmp, inbox, seqOf, earlier, executed>>
      BY <1>8 DEF ClearOutbox, Announce, Publish, WorkerDies, Crash, Stop, Quiescent, vars, files, history
    <2>2. server' = server \/ server'.pc # "read"
      BY <1>8 DEF ClearOutbox, Announce, Publish, WorkerDies, Crash, Stop, Quiescent, vars, TypeOK
    <2>. QED  BY <1>6, <2>1, <2>2
  <1>9. CASE ReadOldest
    <2>1. PICK s \in Seqs :
            /\ inbox[s] # NONE /\ inbox[s] \in Instr
            /\ \A t \in Seqs : inbox[t] # NONE => s <= t
            /\ server' = [pc |-> "read", seq |-> s, instr |-> inbox[s]]
            /\ UNCHANGED <<files, client, starts, answer, history>>
      BY <1>9, ReadFacts
    <2>2. UNCHANGED <<tmp, inbox, seqOf, earlier>> /\ Done' = Done
      BY <2>1 DEF files, history, Done
    <2>3. ASSUME NEW x \in earlier[inbox[s]], NEW t \in Seqs, inbox[t] = x PROVE FALSE
      <3>1. t < seqOf[inbox[s]] /\ seqOf[inbox[s]] = s
        BY <1>3, <2>1, <2>3 DEF PlaceInv
      <3>2. s <= t
        BY <1>0, <2>1, <2>3, NoneFacts
      <3>. QED  BY <3>1, <3>2, SeqsNat
    <2>4. TakenOK
      BY <1>4, <2>1, <2>2, <2>3 DEF TakenOK
    <2>. QED  BY <1>2, <1>5, <2>2, <2>4
  <1>10. CASE Take
    <2>1. /\ server.pc = "read" /\ inbox' = [inbox EXCEPT ![server.seq] = NONE]
          /\ server' = [server EXCEPT !.pc = "busy"]
          /\ UNCHANGED <<tmp, seqOf, earlier>>
          /\ executed' = Append(executed, server.instr)
      BY <1>10 DEF Take
    <2>2. server.instr \in Instr /\ server'.pc = "busy"
      BY <1>0, <2>1 DEF PlaceInv, TypeOK
    <2>3. Done' = Done \cup {server.instr}
      BY <2>1, <2>2, DoneAppend
    <2>4. \A s \in Seqs : inbox'[s] = inbox[s] \/ inbox'[s] = NONE
      BY <2>1 DEF TypeOK, Dir
    <2>5. \A y \in Instr : \A x \in earlier[y] : x # NONE
      BY <1>0, NoneFacts
    <2>6. TakenOK
      BY <1>4, <2>1, <2>2, <2>3, <2>4, <2>5 DEF TakenOK
    <2>. QED  BY <1>2, <1>5, <2>1, <2>4, <2>6
  <1>11. ASSUME NEW c \in Clients, CheckStatus(c) \/ ReadResult(c) \/ GiveUp(c)
         PROVE  EarlierInv'
    <2>1. UNCHANGED <<tmp, inbox, seqOf, earlier, executed, server>>
      BY <1>11 DEF CheckStatus, ReadResult, GiveUp, Answered, files, history
    <2>. QED  BY <1>6, <2>1
  <1>12. ASSUME NEW c \in Clients, Scan(c) PROVE EarlierInv'
    <2>. DEFINE z == Sending(c)
    <2>1. PICK seq \in Seqs :
           /\ \A s \in Seqs : inbox[s] # NONE => s < seq
           /\ seqOf' = [seqOf EXCEPT ![z] = seq]
           /\ z \in Instr
           /\ earlier' = [earlier EXCEPT ![z] = sent]
           /\ client[c].pc = "next"
           /\ UNCHANGED <<files, server, starts, answer, executed, sent, cutOff>>
      BY <1>12, ScanFacts
    <2>2. ~Written(z)
      BY <2>1, NotWrittenYet
    <2>. HIDE DEF z
    <2>3. /\ \A y \in Instr : seqOf'[y] = IF y = z THEN seq ELSE seqOf[y]
          /\ \A y \in Instr : earlier'[y] = IF y = z THEN sent ELSE earlier[y]
      BY <2>1 DEF TypeOK
    <2>4. UNCHANGED <<tmp, inbox, server>> /\ Done' = Done
      BY <2>1 DEF files, Done
    <2>5. ASSUME NEW x \in sent
          PROVE  /\ IsWritten(x)
                 /\ \A s \in Seqs : tmp[s] # x
                 /\ \A s \in Seqs : inbox[s] = x => s < seq
      <3>1. x \in Instr /\ x # NONE /\ Written(x)
        BY <1>0, NoneFacts DEF PlaceInv
      <3>. QED  BY <1>1, <2>1, <3>1 DEF PlaceInv
    <2>6. AheadOK
      BY <1>3, <2>3, <2>4, <2>5 DEF AheadOK
    <2>7. z \notin Done /\ (server.pc = "read" => z # server.instr)
      BY <2>2 DEF PlaceInv
    <2>8. TakenOK
      BY <1>4, <2>3, <2>4, <2>7 DEF TakenOK
    <2>. QED  BY <1>2, <2>6, <2>8
  <1>13. ASSUME NEW c \in Clients, WriteTemporary(c) PROVE EarlierInv'
    <2>. DEFINE z == Sending(c)
                q == client[c].seq
    <2>1. /\ client[c].pc = "scanned" /\ tmp' = [tmp EXCEPT ![q] = z]
          /\ UNCHANGED <<inbox, server, seqOf, earlier>> /\ Done' = Done
      BY <1>13 DEF WriteTemporary, history, Done
    <2>2. ~Written(z)
      BY <2>1, NotWrittenYet
    <2>. HIDE DEF z, q
    <2>3. \A s \in Seqs : tmp'[s] \in {tmp[s], z}
      BY <2>1 DEF TypeOK, Dir
    <2>4. AheadOK
      BY <1>3, <2>1, <2>2, <2>3 DEF AheadOK
    <2>5. TakenOK
      BY <1>4, <2>1 DEF TakenOK
    <2>. QED  BY <1>2, <2>4, <2>5
  <1>14. ASSUME NEW c \in Clients, Rename(c) PROVE EarlierInv'
    <2>. DEFINE q == client[c].seq
    <2>1. q \in Seqs /\ UNCHANGED <<server, seqOf, earlier, executed>>
      BY <1>14 DEF Rename, ClientsInv
    <2>2. CASE tmp[q] = NONE
      <3>1. UNCHANGED <<tmp, inbox>>
        BY <1>14, <2>2 DEF Rename
      <3>. QED  BY <1>6, <2>1, <3>1
    <2>3. CASE tmp[q] # NONE
      <3>1. inbox' = [inbox EXCEPT ![q] = tmp[q]] /\ tmp' = [tmp EXCEPT ![q] = NONE]
        BY <1>14, <2>3 DEF Rename
      <3>. HIDE DEF q
      <3>2. /\ \A s \in Seqs : inbox'[s] = IF s = q THEN tmp[q] ELSE inbox[s]
            /\ \A s \in Seqs : tmp'[s] = IF s = q THEN NONE ELSE tmp[s]
        BY <3>1 DEF TypeOK, Dir
      <3>3. \A y \in Instr : \A x \in earlier[y] : x # NONE /\ x # tmp[q]
        BY <1>0, <1>3, <2>1, NoneFacts
      <3>4. AheadOK
        BY <1>3, <2>1, <3>2, <3>3 DEF AheadOK
      <3>5. Done' = Done
        BY <2>1 DEF Done
      <3>6. TakenOK
        BY <1>4, <2>1, <3>2, <3>3, <3>5 DEF TakenOK
      <3>. QED  BY <1>2, <3>4, <3>6
    <2>. QED  BY <2>2, <2>3
  <1>. QED
    BY <1>7, <1>8, <1>9, <1>10, <1>11, <1>12, <1>13, <1>14, StepKinds DEF ServerStep

-----------------------------------------------------------------------------
(* An instruction that was sent is lost only to another one of its number:   *)
(* every step keeps that so.                                                 *)
LEMMA LostNext ==
  TypeOK /\ ClientsInv /\ PlaceInv /\ NumberInv /\ LostOnlyByCollision /\ [Next]_vars
    => LostOnlyByCollision'
  <1> SUFFICES ASSUME TypeOK, ClientsInv, PlaceInv, NumberInv, LostOnlyByCollision, [Next]_vars,
                      NEW x \in sent', server'.pc # "down"
               PROVE  \/ x \in Content(inbox)' \cup Done' \cup {server'.instr}
                      \/ \E y \in Instr \ {x} : seqOf'[y] = seqOf'[x]
    BY DEF LostOnlyByCollision
  <1>. DEFINE Collides == \E y \in Instr \ {x} : seqOf[y] = seqOf[x]
              CollidesNow == \E y \in Instr \ {x} : seqOf'[y] = seqOf'[x]
  <1>0. /\ \A s \in Seqs : tmp[s] # NONE => tmp[s] \in Instr
        /\ \A s \in Seqs : inbox[s] # NONE => inbox[s] \in Instr
        /\ sent \subseteq Instr /\ Done \subseteq Instr
    BY DoneType DEF TypeOK, Dir
  <1>1. \A z : z \in Content(inbox) <=> \E s \in Seqs : inbox[s] # NONE /\ inbox[s] = z
    BY DEF Content, Names
  <1>2. \A s \in Seqs : inbox'[s] # NONE => inbox'[s] \in Content(inbox)'
    BY DEF Content, Names
  <1>3. ASSUME x \in sent, Collides PROVE CollidesNow
    <2>1. x \in Instr /\ Written(x)
      BY <1>0, <1>3 DEF PlaceInv
    <2>2. seqOf'[x] = seqOf[x] /\ seqOf[x] # 0
      BY <2>1, WrittenKeeps, WrittenNumbered, SeqsNat
    <2>3. PICK y \in Instr \ {x} : seqOf[y] = seqOf[x]
      BY <1>3
    <2>4. seqOf'[y] = seqOf[y]
      <3>1. ASSUME NEW c \in Clients, Scan(c) PROVE seqOf'[y] = seqOf[y]
        <4>1. PICK seq \in Seqs :
               seqOf' = [seqOf EXCEPT ![Sending(c)] = seq] /\ seqOf[Sending(c)] = 0
          BY <3>1, ScanFacts
        <4>. QED  BY <2>2, <2>3, <4>1 DEF TypeOK
      <3>2. ASSUME NEW c \in Clients,
                   CheckStatus(c) \/ WriteTemporary(c) \/ Rename(c) \/ ReadResult(c) \/ GiveUp(c)
            PROVE  seqOf' = seqOf
        BY <3>2 DEF CheckStatus, WriteTemporary, Rename, ReadResult, GiveUp, Answered, history
      <3>. QED  BY <3>1, <3>2, ServerKeeps, StepKinds
    <2>. QED  BY <2>2, <2>3, <2>4
  <1>4. x \in sent => \/ x \in Content(inbox) \/ x \in Done \/ x = server.instr
                      \/ server.pc = "down" \/ Collides
    BY DEF LostOnlyByCollision
  <1>5. ASSUME UNCHANGED <<inbox, executed, sent>>, server.pc # "down",
               server'.instr = server.instr \/ server.instr = NONE \/ server.instr \in Done
        PROVE  x \in Content(inbox)' \cup Done' \cup {server'.instr} \/ CollidesNow
    <2>1. Content(inbox)' = Content(inbox) /\ Done' = Done /\ x \in sent /\ x # NONE
      BY <1>0, <1>5, NoneFacts DEF Content, Names, Done
    <2>. QED  BY <1>3, <1>4, <1>5, <2>1
  <1>6. CASE Start \/ Crash \/ Stop
    BY <1>6 DEF Start, Crash, Stop
  <1>7. CASE ClearOutbox \/ Announce
    BY <1>5, <1>7 DEF ClearOutbox, Announce, history, TypeOK
  <1>8. CASE ReadOldest
    <2>1. UNCHANGED <<inbox, executed, sent>> /\ server.pc = "idle"
      BY <1>8 DEF ReadOldest, files, history
    <2>2. server.instr = NONE
      BY <2>1 DEF PlaceInv
    <2>. QED  BY <1>5, <2>1, <2>2
  <1>9. CASE Take
    <2>1. /\ server.pc = "read" /\ inbox' = [inbox EXCEPT ![server.seq] = NONE]
          /\ sent' = sent /\ seqOf' = seqOf
          /\ executed' = Append(executed, server.instr)
      BY <1>9 DEF Take
    <2>2. server.instr \in Instr /\ server.seq = seqOf[server.instr]
      BY <1>0, <2>1 DEF PlaceInv
    <2>3. Done' = Done \cup {server.instr}
      BY <2>1, <2>2, DoneAppend
    <2>4. CASE x \in Content(inbox)
      <3>1. PICK s \in Seqs : inbox[s] # NONE /\ inbox[s] = x
        BY <1>1, <2>4
      <3>2. CASE s = server.seq
        <4>1. seqOf[x] = seqOf[server.instr]
          BY <2>2, <3>1, <3>2 DEF PlaceInv
        <4>. QED  BY <2>1, <2>2, <2>3, <4>1
      <3>3. CASE s # server.seq
        <4>1. inbox'[s] = x
          BY <2>1, <3>1, <3>3 DEF TypeOK, Dir
        <4>. QED  BY <1>2, <3>1, <4>1
      <3>. QED  BY <3>2, <3>3
    <2>. QED  BY <1>3, <1>4, <2>1, <2>3, <2>4
  <1>10. CASE Publish \/ WorkerDies
    <2>1. UNCHANGED <<inbox, executed, sent>> /\ server.pc = "busy"
      BY <1>10 DEF Publish, WorkerDies, files, history
    <2>. QED  BY <1>5, <2>1 DEF PlaceInv
  <1>11. CASE Quiescent \/ UNCHANGED vars
    <2>1. UNCHANGED <<inbox, executed, sent, server>>
      BY <1>11 DEF Quiescent, vars, files, history
    <2>. QED  BY <1>5, <2>1
  <1>12. ASSUME NEW c \in Clients,
                CheckStatus(c) \/ Scan(c) \/ WriteTemporary(c) \/ ReadResult(c) \/ GiveUp(c)
         PROVE  x \in Content(inbox)' \cup Done' \cup {server'.instr} \/ CollidesNow
    <2>1. UNCHANGED <<inbox, executed, sent, server>>
      BY <1>12 DEF CheckStatus, Scan, WriteTemporary, ReadResult, GiveUp, Answered, files, history
    <2>. QED  BY <1>5, <2>1
  <1>13. ASSUME NEW c \in Clients, Rename(c)
         PROVE  x \in Content(inbox)' \cup Done' \cup {server'.instr} \/ CollidesNow
    <2>. DEFINE q == client[c].seq
    <2>1. q \in Seqs /\ UNCHANGED <<server, seqOf, executed>>
      BY <1>13 DEF Rename, ClientsInv
    <2>2. CASE tmp[q] = NONE
      <3>1. UNCHANGED <<inbox, sent>>
        BY <1>13, <2>2 DEF Rename
      <3>. QED  BY <1>5, <2>1, <3>1
    <2>3. CASE tmp[q] # NONE
      <3>1. inbox' = [inbox EXCEPT ![q] = tmp[q]] /\ sent' = sent \cup {tmp[q]}
        BY <1>13, <2>3 DEF Rename
      <3>2. q = seqOf[tmp[q]] /\ tmp[q] \notin sent /\ tmp[q] \in Instr
        BY <1>0, <2>1, <2>3 DEF PlaceInv
      <3>. HIDE DEF q
      <3>3. \A s \in Seqs : inbox'[s] = IF s = q THEN tmp[q] ELSE inbox[s]
        BY <3>1 DEF TypeOK, Dir
      <3>4. Done' = Done
        BY <2>1 DEF Done
      <3>5. CASE x = tmp[q]
        BY <1>2, <2>1, <2>3, <3>3, <3>5
      <3>6. CASE x \in sent /\ x \in Content(inbox)
        <4>1. PICK s \in Seqs : inbox[s] # NONE /\ inbox[s] = x
          BY <1>1, <3>6
        <4>2. CASE s = q
          <5>1. seqOf[x] = seqOf[tmp[q]] /\ x # tmp[q]
            BY <3>2, <3>6, <4>1, <4>2 DEF PlaceInv
          <5>. QED  BY <2>1, <3>2, <5>1
        <4>3. CASE s # q
          BY <1>2, <3>3, <4>1, <4>3
        <4>. QED  BY <4>2, <4>3
      <3>7. CASE x \in sent /\ x \notin Content(inbox)
        BY <1>3, <1>4, <2>1, <3>4, <3>7
      <3>. QED  BY <3>1, <3>5, <3>6, <3>7
    <2>. QED  BY <2>2, <2>3
  <1>. QED
    BY <1>6, <1>7, <1>8, <1>9, <1>10, <1>11, <1>12, <1>13, StepKinds DEF ServerStep

-----------------------------------------------------------------------------
(* The inductive invariant.                                                  *)
IInv ==
  /\ TypeOK /\ ClientsInv /\ PlaceInv /\ NumberInv /\ EarlierInv
  /\ LostOnlyByCollision

(* It holds in every reachable state.                                        *)
THEOREM Invariance == Spec => []IInv
  <1>1. Init => IInv
    <2> SUFFICES ASSUME Init PROVE IInv
      OBVIOUS
    <2>1. /\ inbox = Empty /\ tmp = Empty /\ outbox = Empty
          /\ client = [c \in Clients |-> [pc |-> "start", k |-> 1, seq |-> 0]]
          /\ server = [pc |-> "down", seq |-> 0, instr |-> NONE]
          /\ starts = 0 /\ answer = [i \in Instr |-> NONE]
          /\ executed = <<>> /\ sent = {}
          /\ seqOf = [i \in Instr |-> 0] /\ earlier = [i \in Instr |-> {}]
          /\ cutOff = {}
      BY DEF Init
    <2>2. Done = {}
      BY <2>1 DEF Done
    <2>3. /\ \A s \in Seqs : inbox[s] = NONE /\ tmp[s] = NONE /\ outbox[s] = NONE
          /\ Empty \in Dir
      BY <2>1 DEF Empty, Dir
    <2>4. ready \in BOOLEAN
      BY Zenon DEF Init
    <2>5. DataOK
      <3>1. client \in [Clients -> ClientState]
        <4>1. [pc |-> "start", k |-> 1, seq |-> 0] \in ClientState
          BY PerClientAssumption DEF ClientState, ClientPC
        <4>. QED  BY <2>1, <4>1
      <3>2. starts \in 0..MaxStarts
        BY <2>1, StartsAssumption
      <3>3. executed \in Seq(Instr)
        BY <2>1
      <3>. QED  BY <2>1, <2>3, <3>1, <3>2, <3>3 DEF DataOK
    <2>6. TypeOK
      BY <2>4, <2>5, TypeParts
    <2>7. ClientsInv
      <3>1. \A c \in Clients : client[c].pc = "start" /\ client[c].k = 1
        BY <2>1
      <3>2. \A c \in Clients, k \in 1..PerClient :
              ~(k < 1) /\ seqOf[<<c, k>>] = 0 /\ earlier[<<c, k>>] = {}
        <4> SUFFICES ASSUME NEW c \in Clients, NEW k \in 1..PerClient
                     PROVE ~(k < 1) /\ seqOf[<<c, k>>] = 0 /\ earlier[<<c, k>>] = {}
          OBVIOUS
        <4>1. <<c, k>> \in Instr
          BY DEF Instr
        <4>2. ~(k < 1)
          BY PerClientAssumption
        <4>. QED  BY <2>1, <4>1, <4>2
      <3>. QED  BY <3>1, <3>2, PerClientAssumption DEF ClientsInv
    <2>8. PlaceInv
      BY <2>1, <2>2, <2>3 DEF PlaceInv
    <2>9. NumberInv
      <3>1. \A x \in Instr : seqOf[x] = 0 /\ 0 <= Cardinality(Begun)
        BY <2>1, BegunFinite
      <3>. QED  BY <2>3, <3>1 DEF NumberInv
    <2>10. EarlierInv
      BY <2>1 DEF EarlierInv
    <2>11. LostOnlyByCollision
      BY <2>1 DEF LostOnlyByCollision
    <2>. QED  BY <2>6, <2>7, <2>8, <2>9, <2>10, <2>11 DEF IInv
  <1>2. IInv /\ [Next]_vars => IInv'
    BY TypeNext, ClientsNext, PlaceNext, NumberNext, EarlierNext, LostNext DEF IInv
  <1>. QED  BY <1>1, <1>2, PTL DEF Spec

(* Every variable keeps its type: the scan of submit always finds a number   *)
(* that is left.                                                             *)
THEOREM TypeCorrect == Spec => []TypeOK
  <1>1. IInv => TypeOK
    BY DEF IInv
  <1>. QED  BY <1>1, Invariance, PTL

(* The sorted inbox is served in the order in which submits followed each    *)
(* other (next_instruction).                                                 *)
THEOREM ServedInOrder == Spec => []NoOvertaking
  <1>1. IInv => NoOvertaking
    <2> SUFFICES ASSUME IInv, NEW y \in Done, NEW x \in earlier[y], x \in Content(inbox)
                 PROVE  FALSE
      BY DEF NoOvertaking
    <2>1. y \in Instr
      BY DoneType DEF IInv
    <2>2. \E s \in Seqs : inbox[s] = x
      BY DEF Content, Names
    <2>. QED  BY <2>1, <2>2 DEF IInv, EarlierInv
  <1>. QED  BY <1>1, Invariance, PTL

(* A sent instruction is never lost but to one that drew the same number     *)
(* (submit, Path.replace and unlink by name).                                *)
THEOREM NothingElseIsLost == Spec => []LostOnlyByCollision
  <1>1. IInv => LostOnlyByCollision
    BY DEF IInv
  <1>. QED  BY <1>1, Invariance, PTL

(* No instruction is executed twice, nor by a server it was not sent to.     *)
THEOREM ExecutedOnce == Spec => ExecutedOnceByItsServer
  <1>. DEFINE Once == executed' # executed =>
                        \E x \in sent \ Done : executed' = Append(executed, x)
  <1>1. IInv /\ [Next]_vars => [Once]_vars
    <2> SUFFICES ASSUME IInv, [Next]_vars, executed' # executed
                 PROVE  \E x \in sent \ Done : executed' = Append(executed, x)
      OBVIOUS
    <2>1. Take
      <3>1. ASSUME NEW c \in Clients,
                   CheckStatus(c) \/ Scan(c) \/ WriteTemporary(c) \/ Rename(c) \/ ReadResult(c) \/ GiveUp(c)
            PROVE  executed' = executed
        BY <3>1 DEF CheckStatus, Scan, WriteTemporary, Rename, ReadResult, GiveUp, Answered, history
      <3>2. ServerStep => Take \/ executed' = executed
        BY DEF ServerStep, Start, ClearOutbox, Announce, ReadOldest, Publish, WorkerDies, Crash, Stop,
               Quiescent, vars, files, history
      <3>. QED  BY <3>1, <3>2, StepKinds
    <2>2. server.instr \in sent \ Done /\ executed' = Append(executed, server.instr)
      BY <2>1 DEF Take, IInv, PlaceInv
    <2>. QED  BY <2>2
  <1>. QED  BY <1>1, Invariance, PTL DEF Spec, ExecutedOnceByItsServer
=============================================================================
