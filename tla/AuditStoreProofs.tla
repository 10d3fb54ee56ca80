-------------------------- MODULE AuditStoreProofs --------------------------
(***************************************************************************)
(* AuditStore, proved for any number of appends and restarts, any texts    *)
(* and anything of AllFaults going wrong: memory is a chain, no            *)
(* acknowledged record is hidden but behind an object that lacks its       *)
(* newline, and what was written can be read but for the texts that do not *)
(* survive the round trip through JSON and the scanner.                    *)
(***************************************************************************)
EXTENDS AuditStore, SequenceTheorems, TLAPS

(* The file is a sequence of lines that are not empty.  S stands for all     *)
(* pieces ever written: hashes nest without end, so no set is given for it.  *)
Shape(S) ==
  /\ lines \in Seq(Seq(S) \ {<<>>})
  /\ records \in Seq(S)
  /\ acked \in Seq(S)

SInv ==
  /\ TypeOK /\ MemoryIsChain
  /\ \E S : Shape(S)

(* a stands behind a whole object on its line.                               *)
HiddenIn(file, a) == \E i \in 1 .. Len(file) :
                       ~Head(file[i]).torn /\ \E j \in 2 .. Len(file[i]) : file[i][j] = a

(* An acknowledged record is somewhere in the file for good, and in memory   *)
(* unless the last start could not see it.                                   *)
AInv ==
  /\ \A k \in 1 .. Len(acked) :
       \E i \in 1 .. Len(lines) : \E j \in 1 .. Len(lines[i]) : lines[i][j] = acked[k]
  /\ up => \A k \in 1 .. Len(acked) :
             (\E i \in 1 .. Len(records) : records[i] = acked[k]) \/ HiddenIn(lines, acked[k])

(* A line as Append writes it, its hash that of the text on it.              *)
LineSound(file, i) ==
  LET r == Head(file[i])
  IN /\ file[i] = <<r>> /\ ~r.torn /\ r.seq = i
     /\ r.prev = IF i = 1 THEN Genesis ELSE Head(file[i - 1]).hash
     /\ r.text \in {"plain", "bytes", "escape", "full"}
     /\ r.hash = <<r.seq, r.id, r.prev, r.text>>

(* Until something goes wrong the file is as Append wrote it, line by line,  *)
(* and memory is at its end.                                                 *)
RInv ==
  ~faulted =>
    /\ ~open
    /\ \A i \in 1 .. Len(lines) : LineSound(lines, i)
    /\ up => /\ Len(records) = Len(lines)
             /\ last = IF lines = <<>> THEN Genesis ELSE Head(lines[Len(lines)]).hash

(***************************************************************************)
(* Operators.                                                              *)
(***************************************************************************)
(* A sequence over S is one over any larger set.                             *)
LEMMA ShapeGrows ==
  ASSUME NEW S, NEW T, S \subseteq T, Shape(S)
  PROVE  Shape(T)
<1>1. Seq(S) \subseteq Seq(T)
  BY SeqMonotonic
<1>2. Seq(Seq(S) \ {<<>>}) \subseteq Seq(Seq(T) \ {<<>>})
  BY <1>1, SeqMonotonic
<1> QED BY <1>1, <1>2 DEF Shape

(* What is written goes behind what is there, O_APPEND (audit.go 81-89).   *)
LEMMA WriteGrows ==
  ASSUME NEW S, lines \in Seq(Seq(S) \ {<<>>}), open \in BOOLEAN, open => lines # <<>>,
         NEW pieces \in Seq(S), Write(pieces)
  PROVE  /\ lines' \in Seq(Seq(S) \ {<<>>})
         /\ Len(lines') >= Len(lines)
         /\ \A i \in 1 .. Len(lines) :
              /\ Head(lines'[i]) = Head(lines[i]) /\ Len(lines'[i]) >= Len(lines[i])
              /\ \A j \in 1 .. Len(lines[i]) : lines'[i][j] = lines[i][j]
         /\ \A j \in 1 .. Len(pieces) :
              \E i \in 1 .. Len(lines') : \E k \in 1 .. Len(lines'[i]) : lines'[i][k] = pieces[j]
         /\ pieces # <<>> => lines' # <<>>
         /\ open => Len(lines') = Len(lines)
         /\ pieces # <<>> /\ ~open =>
              Len(lines') = Len(lines) + 1 /\ lines'[Len(lines')] = pieces
<1>1. ASSUME NEW s \in Seq(S), s # <<>>, NEW t \in Seq(S)
      PROVE  /\ s \o t \in Seq(S) \ {<<>>} /\ Head(s \o t) = Head(s)
             /\ Len(s \o t) = Len(s) + Len(t) /\ Len(s) \in Nat /\ Len(t) \in Nat
             /\ \A j \in 1 .. Len(s) : (s \o t)[j] = s[j]
             /\ \A j \in 1 .. Len(t) : (s \o t)[Len(s) + j] = t[j]
  <2>1. s \o t \in Seq(S) /\ Len(s \o t) = Len(s) + Len(t) /\ Len(s) \in Nat \ {0} /\ Len(t) \in Nat
    BY <1>1, ConcatProperties, EmptySeq, LenProperties
  <2>2. \A j \in 1 .. Len(s) + Len(t) :
          (s \o t)[j] = IF j <= Len(s) THEN s[j] ELSE t[j - Len(s)]
    BY <1>1, ConcatProperties
  <2>3. \A j \in 1 .. Len(s) : (s \o t)[j] = s[j]
    BY <2>1, <2>2
  <2>4. \A j \in 1 .. Len(t) : (s \o t)[Len(s) + j] = t[j]
    BY <2>1, <2>2
  <2>5. s \o t # <<>>
    BY <2>1, EmptySeq
  <2> QED BY <1>1, <2>1, <2>3, <2>4, <2>5
<1>2. \A i \in 1 .. Len(lines) : lines[i] \in Seq(S) /\ lines[i] # <<>> /\ Len(lines[i]) \in Nat
  OBVIOUS
<1>3. Len(lines) \in Nat /\ (lines # <<>> => Len(lines) \in 1 .. Len(lines))
  BY EmptySeq
<1>4. CASE pieces = <<>>
  BY <1>2, <1>3, <1>4 DEF Write
<1>5. CASE pieces # <<>> /\ open
  <2> DEFINE n == Len(lines)
             l == lines[n] \o pieces
  <2>1. n \in 1 .. Len(lines) /\ lines[n] \in Seq(S) /\ lines[n] # <<>>
    BY <1>2, <1>3, <1>5
  <2>2. /\ l \in Seq(S) \ {<<>>} /\ Head(l) = Head(lines[n])
        /\ Len(l) = Len(lines[n]) + Len(pieces) /\ Len(lines[n]) \in Nat /\ Len(pieces) \in Nat
        /\ \A j \in 1 .. Len(lines[n]) : l[j] = lines[n][j]
        /\ \A j \in 1 .. Len(pieces) : l[Len(lines[n]) + j] = pieces[j]
    BY <1>1, <2>1
  <2>3. lines' = [lines EXCEPT ![n] = l]
    BY <1>5 DEF Write
  <2> HIDE DEF l
  <2>4. /\ lines' \in Seq(Seq(S) \ {<<>>}) /\ Len(lines') = n
        /\ \A j \in 1 .. n : lines'[j] = IF j = n THEN l ELSE lines[j]
    BY <2>1, <2>2, <2>3, ExceptSeq
  <2>5. lines' # <<>>
    BY <2>1, <2>4, EmptySeq
  <2>6. ASSUME NEW i \in 1 .. Len(lines)
        PROVE  /\ Head(lines'[i]) = Head(lines[i]) /\ Len(lines'[i]) >= Len(lines[i])
               /\ \A j \in 1 .. Len(lines[i]) : lines'[i][j] = lines[i][j]
    <3>1. CASE i = n
      BY <2>2, <2>4, <3>1
    <3>2. CASE i # n
      BY <1>2, <2>4, <3>2
    <3> QED BY <3>1, <3>2
  <2>7. Len(lines') >= Len(lines)
    BY <1>3, <2>4
  <2>8. ASSUME NEW j \in 1 .. Len(pieces)
        PROVE  \E i \in 1 .. Len(lines') : \E k \in 1 .. Len(lines'[i]) : lines'[i][k] = pieces[j]
    <3>1. lines'[n] = l /\ n \in 1 .. Len(lines')
      BY <2>1, <2>4
    <3>2. Len(lines[n]) + j \in 1 .. Len(lines'[n]) /\ lines'[n][Len(lines[n]) + j] = pieces[j]
      BY <2>2, <3>1
    <3> QED BY <3>1, <3>2
  <2> QED BY <1>5, <2>4, <2>5, <2>6, <2>7, <2>8
<1>6. CASE pieces # <<>> /\ ~open
  <2>1. lines' = Append(lines, pieces) /\ pieces \in Seq(S) \ {<<>>}
    BY <1>6 DEF Write
  <2>2. /\ lines' \in Seq(Seq(S) \ {<<>>}) /\ lines' # <<>> /\ Len(lines') = Len(lines) + 1
        /\ \A i \in 1 .. Len(lines) : lines'[i] = lines[i]
        /\ lines'[Len(lines) + 1] = pieces
    BY <2>1, AppendProperties
  <2>3. ASSUME NEW j \in 1 .. Len(pieces)
        PROVE  \E i \in 1 .. Len(lines') : \E k \in 1 .. Len(lines'[i]) : lines'[i][k] = pieces[j]
    <3>1. Len(lines) + 1 \in 1 .. Len(lines')
      BY <1>3, <2>2
    <3> QED BY <2>2, <3>1
  <2> QED BY <1>2, <1>3, <1>6, <2>2, <2>3
<1> QED BY <1>4, <1>5, <1>6

(* A start takes its records from the file, the first object of each line    *)
(* (loadAndVerify 139-186).                                                  *)
LEMMA OpenReads ==
  ASSUME NEW S, Shape(S), OpenAuditStore
  PROVE  /\ records' \in Seq(S) /\ Len(records') = Len(lines) /\ Len(lines) \in Nat
         /\ \A i \in 1 .. Len(lines) : records'[i] = Head(lines[i])
         /\ last' = IF lines = <<>> THEN Genesis ELSE Head(lines[Len(lines)]).hash
<1>1. \A i \in 1 .. Len(lines) : Head(lines[i]) \in S
  BY HeadTailProperties DEF Shape
<1>2. Len(lines) \in Nat
  BY DEF Shape
<1>3. records' = [i \in 1 .. Len(lines) |-> Head(lines[i])]
  BY DEF OpenAuditStore
<1>4. records' \in Seq(S) /\ Len(records') = Len(lines)
  BY <1>1, <1>2, <1>3, IsASeq
<1> QED BY <1>2, <1>3, <1>4 DEF OpenAuditStore, Last

(***************************************************************************)
(* Whatever goes wrong.                                                    *)
(***************************************************************************)
(* The initial state: an empty file.                                         *)
LEMMA SInitInv == Init => SInv /\ AInv /\ RInv
<1> SUFFICES ASSUME Init PROVE SInv /\ AInv /\ RInv
  OBVIOUS
<1>1. lines = <<>> /\ records = <<>> /\ acked = <<>> /\ Len(lines) = 0 /\ Len(records) = 0 /\ Len(acked) = 0
  BY DEF Init
<1>2. TypeOK
  <2>1. boots \in 1 .. MaxBoots /\ calls \in 0 .. MaxAppends
    BY AuditAssumption DEF Init
  <2>2. up \in BOOLEAN /\ open \in BOOLEAN /\ faulted \in BOOLEAN /\ ~open
    BY DEF Init
  <2>3. \A i \in 1 .. Len(lines) : lines[i] # <<>>
    BY <1>1
  <2> QED BY <2>1, <2>2, <2>3, Zenon DEF TypeOK
<1>3. MemoryIsChain
  BY <1>1 DEF Init, MemoryIsChain
<1>4. Shape({})
  BY <1>1, EmptySeq DEF Shape
<1>5. AInv
  BY <1>1 DEF Init, AInv
<1>6. RInv
  BY <1>1 DEF Init, RInv
<1> QED BY <1>2, <1>3, <1>4, <1>5, <1>6 DEF SInv

(* A successful append: the record and what it is joined to.                 *)
LEMMA AppendOkSteps ==
  ASSUME SInv, NEW value, AppendOk(value)
  PROVE  SInv'
<1>1. PICK S0 : Shape(S0)
  BY DEF SInv
<1> PICK r : r = NewRecord(value)
  OBVIOUS
<1> PICK S : S = S0 \cup {r}
  OBVIOUS
<1>2. Shape(S)
  BY <1>1, ShapeGrows
<1>3. /\ Write(<<r>>) /\ records' = Append(records, r) /\ last' = r.hash /\ acked' = Append(acked, r)
      /\ UNCHANGED <<up, faulted, boots>> /\ open' = FALSE /\ calls < MaxAppends /\ calls' = calls + 1
  BY DEF AppendOk, Called
<1>4. r.seq = Len(records) + 1 /\ r.prev = last
  BY DEF NewRecord
<1>5. r \in S /\ <<r>> \in Seq(S) /\ <<r>> # <<>>
  OBVIOUS
<1>6. lines' \in Seq(Seq(S) \ {<<>>}) /\ lines' # <<>>
  BY <1>2, <1>3, <1>5, WriteGrows DEF Shape, SInv, TypeOK
<1>7. /\ records' \in Seq(S) /\ Len(records') = Len(records) + 1 /\ Len(records) \in Nat
      /\ \A i \in 1 .. Len(records) : records'[i] = records[i]
      /\ records'[Len(records) + 1] = r /\ acked' \in Seq(S) /\ records' # <<>>
  BY <1>2, <1>3, <1>5, AppendProperties, LenProperties DEF Shape
<1>8. \E T : Shape(T)'
  <2>1. Shape(S)'
    BY <1>6, <1>7 DEF Shape
  <2> QED BY <2>1
<1>9. TypeOK'
  <2>1. \A i \in 1 .. Len(lines') : lines'[i] # <<>>
    BY <1>6
  <2>2. boots' \in 1 .. MaxBoots /\ calls' \in 0 .. MaxAppends
    BY <1>3, AuditAssumption DEF SInv, TypeOK
  <2>3. up' \in BOOLEAN /\ open' \in BOOLEAN /\ faulted' \in BOOLEAN
    BY <1>3 DEF SInv, TypeOK
  <2> QED BY <1>6, <2>1, <2>2, <2>3, Zenon DEF TypeOK
<1>10. MemoryIsChain'
  <2>1. ASSUME NEW i \in 1 .. Len(records')
        PROVE  /\ records'[i].seq = i
               /\ records'[i].prev = IF i = 1 THEN Genesis ELSE records'[i - 1].hash
    <3>1. CASE i = Len(records) + 1
      <4>1. records'[i].seq = i /\ records'[i].prev = last
        BY <1>4, <1>7, <3>1
      <4>2. last = IF Len(records) = 0 THEN Genesis ELSE records[Len(records)].hash
        BY <1>2, EmptySeq DEF SInv, MemoryIsChain, Last, Shape
      <4>3. Len(records) # 0 => records'[i - 1] = records[Len(records)]
        BY <1>7, <3>1
      <4> QED BY <1>7, <3>1, <4>1, <4>2, <4>3
    <3>2. CASE i \in 1 .. Len(records)
      <4>1. /\ records[i].seq = i
            /\ records[i].prev = IF i = 1 THEN Genesis ELSE records[i - 1].hash
        BY <3>2 DEF SInv, MemoryIsChain
      <4>2. records'[i] = records[i] /\ (i # 1 => records'[i - 1] = records[i - 1])
        BY <1>7, <3>2
      <4> QED BY <4>1, <4>2
    <3> QED BY <1>7, <3>1, <3>2
  <2>2. last' = Last(records').hash
    BY <1>3, <1>7 DEF Last
  <2> QED BY <1>7, <2>1, <2>2 DEF MemoryIsChain
<1> QED BY <1>8, <1>9, <1>10 DEF SInv

(* A failed append: what it has left in the file.                            *)
LEMMA FailedWrite ==
  ASSUME SInv, NEW value, NEW fault \in AllFaults, NEW stays, AppendFails(value, fault, stays)
  PROVE  \E S, pieces :
           /\ Shape(S) /\ Write(pieces) /\ pieces \in Seq(S)
           /\ open' = CASE fault = "none" -> open
                        [] fault \in {"torn", "noeol"} -> TRUE
                        [] OTHER -> FALSE
           /\ fault = "none" => pieces = <<>>
           /\ fault = "torn" => pieces = <<Torn>>
           /\ fault \in {"noeol", "unsynced"} => pieces = <<NewRecord(value)>>
<1>1. PICK S0 : Shape(S0)
  BY DEF SInv
<1> PICK r : r = NewRecord(value)
  OBVIOUS
<1> PICK S : S = S0 \cup {r, Torn}
  OBVIOUS
<1> PICK pieces : pieces = Broken(r, fault)
  OBVIOUS
<1>2. Shape(S)
  BY <1>1, ShapeGrows
<1>3. /\ fault = "none" => pieces = <<>>
      /\ fault = "torn" => pieces = <<Torn>>
      /\ fault \in {"noeol", "unsynced"} => pieces = <<r>>
  BY DEF Broken
<1>4. <<>> \in Seq(S) /\ <<r>> \in Seq(S) /\ <<Torn>> \in Seq(S)
  <2>1. r \in S /\ Torn \in S
    OBVIOUS
  <2> HIDE DEF Torn
  <2> QED BY <2>1
<1>5. pieces \in Seq(S)
  BY <1>3, <1>4 DEF AllFaults
<1>6. Write(pieces)
  BY DEF AppendFails
<1>7. open' = CASE fault = "none" -> open
                [] fault \in {"torn", "noeol"} -> TRUE
                [] OTHER -> FALSE
  BY DEF AppendFails
<1> QED BY <1>2, <1>3, <1>5, <1>6, <1>7

(* A failed append changes the file at its end, and memory not at all unless *)
(* the process died of it.                                                   *)
LEMMA AppendFailsSteps ==
  ASSUME SInv, NEW value, NEW fault \in AllFaults, NEW stays \in BOOLEAN,
         AppendFails(value, fault, stays)
  PROVE  SInv'
<1>1. PICK S, pieces :
        /\ Shape(S) /\ Write(pieces) /\ pieces \in Seq(S)
        /\ open' = CASE fault = "none" -> open
                     [] fault \in {"torn", "noeol"} -> TRUE
                     [] OTHER -> FALSE
        /\ fault = "none" => pieces = <<>>
        /\ fault = "torn" => pieces = <<Torn>>
        /\ fault \in {"noeol", "unsynced"} => pieces = <<NewRecord(value)>>
  BY FailedWrite
<1>2. /\ acked' = acked /\ boots' = boots /\ faulted' = TRUE /\ up' = stays
      /\ calls < MaxAppends /\ calls' = calls + 1
      /\ \/ records' = records /\ last' = last
         \/ records' = <<>> /\ last' = Genesis
  BY DEF AppendFails, Called
<1>3. lines' \in Seq(Seq(S) \ {<<>>}) /\ (pieces # <<>> => lines' # <<>>)
  BY <1>1, WriteGrows DEF Shape, SInv, TypeOK
<1>4. \E T : Shape(T)'
  <2>1. Shape(S)'
    BY <1>1, <1>2, <1>3, EmptySeq DEF Shape
  <2> QED BY <2>1
<1>5. TypeOK'
  <2>1. \A i \in 1 .. Len(lines') : lines'[i] # <<>>
    BY <1>3
  <2>2. boots' \in 1 .. MaxBoots /\ calls' \in 0 .. MaxAppends
    BY <1>2, AuditAssumption DEF SInv, TypeOK
  <2>3. up' \in BOOLEAN /\ faulted' \in BOOLEAN
    BY <1>2 DEF SInv, TypeOK
  <2>4. open' \in BOOLEAN /\ (open' => lines' # <<>>)
    <3>1. CASE fault = "none"
      <4>1. open' = open /\ lines' = lines
        BY <1>1, <3>1 DEF Write
      <4> QED BY <4>1 DEF SInv, TypeOK
    <3>2. CASE fault # "none"
      <4>1. pieces # <<>> /\ (open' = TRUE \/ open' = FALSE)
        BY <1>1, <3>2 DEF AllFaults
      <4> QED BY <1>3, <4>1
    <3> QED BY <3>1, <3>2
  <2> QED BY <2>1, <2>2, <2>3, <2>4, Zenon DEF TypeOK
<1>6. MemoryIsChain'
  <2>1. CASE records' = records /\ last' = last
    BY <2>1 DEF SInv, MemoryIsChain
  <2>2. CASE records' = <<>> /\ last' = Genesis
    <3>1. Len(records') = 0
      BY <2>2
    <3> QED BY <2>2, <3>1 DEF MemoryIsChain
  <2> QED BY <1>2, <2>1, <2>2
<1> QED BY <1>4, <1>5, <1>6 DEF SInv

(* A stop forgets the memory; a start checks the chain and takes it over.    *)
LEMMA StopSteps ==
  ASSUME SInv, Stop \/ UNCHANGED vars
  PROVE  SInv'
<1>1. PICK S : Shape(S)
  BY DEF SInv
<1>2. /\ UNCHANGED <<lines, open, acked, faulted, calls, boots>> /\ (up' = up \/ up' = FALSE)
      /\ \/ records' = records /\ last' = last
         \/ records' = <<>> /\ last' = Genesis
  BY DEF Stop, vars
<1>3. \E T : Shape(T)'
  <2>1. Shape(S)'
    BY <1>1, <1>2, EmptySeq DEF Shape
  <2> QED BY <2>1
<1>4. TypeOK'
  <2>1. up' \in BOOLEAN
    BY <1>2 DEF SInv, TypeOK
  <2> QED BY <1>2, <2>1 DEF SInv, TypeOK
<1>5. MemoryIsChain'
  <2>1. CASE records' = records /\ last' = last
    BY <2>1 DEF SInv, MemoryIsChain
  <2>2. CASE records' = <<>> /\ last' = Genesis
    <3>1. Len(records') = 0
      BY <2>2
    <3> QED BY <2>2, <3>1 DEF MemoryIsChain
  <2> QED BY <1>2, <2>1, <2>2
<1> QED BY <1>3, <1>4, <1>5 DEF SInv

(* loadAndVerify 139-186.                                                    *)
LEMMA OpenSteps ==
  ASSUME SInv, OpenAuditStore
  PROVE  SInv'
<1>1. PICK S : Shape(S)
  BY DEF SInv
<1>2. /\ UNCHANGED <<lines, open, acked, faulted, calls>> /\ up' = TRUE
      /\ boots' = boots + 1 /\ boots < MaxBoots /\ Verifies(lines)
  BY DEF OpenAuditStore
<1>3. /\ records' \in Seq(S) /\ Len(records') = Len(lines) /\ Len(lines) \in Nat
      /\ \A i \in 1 .. Len(lines) : records'[i] = Head(lines[i])
      /\ last' = IF lines = <<>> THEN Genesis ELSE Head(lines[Len(lines)]).hash
  BY <1>1, OpenReads
<1>4. \E T : Shape(T)'
  <2>1. Shape(S)'
    BY <1>1, <1>2, <1>3 DEF Shape
  <2> QED BY <2>1
<1>5. TypeOK'
  <2>1. boots' \in 1 .. MaxBoots
    BY <1>2, AuditAssumption DEF SInv, TypeOK
  <2>2. up' \in BOOLEAN
    BY <1>2
  <2> QED BY <1>2, <2>1, <2>2 DEF SInv, TypeOK
<1>6. MemoryIsChain'
  <2>1. ASSUME NEW i \in 1 .. Len(records')
        PROVE  /\ records'[i].seq = i
               /\ records'[i].prev = IF i = 1 THEN Genesis ELSE records'[i - 1].hash
    <3>1. LineAccepted(lines, i) /\ records'[i] = Head(lines[i])
      BY <1>2, <1>3 DEF Verifies
    <3>2. i # 1 => records'[i - 1] = Head(lines[i - 1])
      BY <1>3
    <3> QED BY <3>1, <3>2 DEF LineAccepted
  <2>2. last' = IF records' = <<>> THEN Genesis ELSE Last(records').hash
    <3>1. records' = <<>> <=> lines = <<>>
      BY <1>1, <1>3, EmptySeq DEF Shape
    <3>2. lines # <<>> => Len(lines) \in 1 .. Len(lines)
      BY <1>1, EmptySeq DEF Shape
    <3> QED BY <1>3, <3>1, <3>2 DEF Last
  <2> QED BY <2>1, <2>2 DEF MemoryIsChain
<1> QED BY <1>4, <1>5, <1>6 DEF SInv

(* Every step keeps the chain.                                               *)
LEMMA SNextInv == SInv /\ [Next]_vars => SInv'
BY AppendOkSteps, AppendFailsSteps, StopSteps, OpenSteps, AuditAssumption DEF Next

(* Shapes and chain hold throughout every behaviour, whatever goes wrong.    *)
THEOREM AuditInvariance == Spec => []SInv
BY SInitInv, SNextInv, PTL DEF Spec

(* Every variable keeps its type, and no line of the file is empty.          *)
THEOREM AuditTypeCorrect == Spec => []TypeOK
BY AuditInvariance, PTL DEF SInv

(* The records in memory are numbered from 1 and chained by their hashes at  *)
(* any time, after any faults and restarts (Append 40-101, loadAndVerify).   *)
THEOREM MemoryIsChainHolds == Spec => []MemoryIsChain
BY AuditInvariance, PTL DEF SInv

(***************************************************************************)
(* Acknowledged records, whatever goes wrong.                              *)
(***************************************************************************)
(* Nothing is taken out of the file, and what is hidden stays so (O_APPEND). *)
LEMMA FileKeeps ==
  ASSUME SInv, NEW S, Shape(S), NEW pieces \in Seq(S), Write(pieces)
  PROVE  /\ \A a : (\E i \in 1 .. Len(lines) : \E j \in 1 .. Len(lines[i]) : lines[i][j] = a)
               => \E i \in 1 .. Len(lines') : \E j \in 1 .. Len(lines'[i]) : lines'[i][j] = a
         /\ \A a : HiddenIn(lines, a) => HiddenIn(lines', a)
<1>1. /\ lines' \in Seq(Seq(S) \ {<<>>}) /\ Len(lines') >= Len(lines)
      /\ \A i \in 1 .. Len(lines) :
           /\ Head(lines'[i]) = Head(lines[i]) /\ Len(lines'[i]) >= Len(lines[i])
           /\ \A j \in 1 .. Len(lines[i]) : lines'[i][j] = lines[i][j]
  BY WriteGrows DEF Shape, SInv, TypeOK
<1>2. ASSUME NEW i \in 1 .. Len(lines), NEW j \in 1 .. Len(lines[i])
      PROVE  /\ i \in 1 .. Len(lines') /\ j \in 1 .. Len(lines'[i])
             /\ j \in 2 .. Len(lines[i]) => j \in 2 .. Len(lines'[i])
             /\ lines'[i][j] = lines[i][j] /\ Head(lines'[i]) = Head(lines[i])
  <2>1. Len(lines) \in Nat /\ Len(lines') \in Nat /\ lines[i] \in Seq(S)
    BY <1>1, LenProperties DEF Shape
  <2>2. i \in 1 .. Len(lines') /\ lines'[i] \in Seq(S)
    BY <1>1, <2>1
  <2>3. Len(lines[i]) \in Nat /\ Len(lines'[i]) \in Nat
    BY <2>1, <2>2, LenProperties
  <2> QED BY <1>1, <2>2, <2>3
<1>3. ASSUME NEW i \in 1 .. Len(lines) PROVE 2 .. Len(lines[i]) \subseteq 1 .. Len(lines[i])
  BY LenProperties DEF Shape
<1>4. ASSUME NEW a, HiddenIn(lines, a) PROVE HiddenIn(lines', a)
  <2>1. PICK i \in 1 .. Len(lines) :
          ~Head(lines[i]).torn /\ \E j \in 2 .. Len(lines[i]) : lines[i][j] = a
    BY <1>4 DEF HiddenIn
  <2>2. PICK j \in 2 .. Len(lines[i]) : lines[i][j] = a
    BY <2>1
  <2>3. j \in 1 .. Len(lines[i])
    BY <1>3
  <2> QED BY <1>2, <2>1, <2>2, <2>3 DEF HiddenIn
<1> QED BY <1>2, <1>4

(* No step loses an acknowledged record from the file, nor from memory       *)
(* (Append 81-101, loadAndVerify 154-178).                                   *)
LEMMA AckedStep ==
  ASSUME SInv, AInv, [Next]_vars
  PROVE  AInv'
<1>1. PICK S0 : Shape(S0)
  BY DEF SInv
<1>2. ASSUME NEW value, AppendOk(value) PROVE AInv'
  <2> PICK r : r = NewRecord(value)
    OBVIOUS
  <2> PICK S : S = S0 \cup {r}
    OBVIOUS
  <2>1. Shape(S) /\ r \in S /\ <<r>> \in Seq(S) /\ Len(<<r>>) = 1 /\ <<r>>[1] = r
    BY <1>1, ShapeGrows
  <2>2. Write(<<r>>) /\ records' = Append(records, r) /\ acked' = Append(acked, r) /\ up' = up
    BY <1>2 DEF AppendOk
  <2>3. /\ \A a : (\E i \in 1 .. Len(lines) : \E j \in 1 .. Len(lines[i]) : lines[i][j] = a)
              => \E i \in 1 .. Len(lines') : \E j \in 1 .. Len(lines'[i]) : lines'[i][j] = a
        /\ \A a : HiddenIn(lines, a) => HiddenIn(lines', a)
    BY <2>1, <2>2, FileKeeps
  <2>4. \E i \in 1 .. Len(lines') : \E j \in 1 .. Len(lines'[i]) : lines'[i][j] = r
    <3>1. \A j \in 1 .. Len(<<r>>) :
            \E i \in 1 .. Len(lines') : \E k \in 1 .. Len(lines'[i]) : lines'[i][k] = <<r>>[j]
      BY <2>1, <2>2, WriteGrows DEF Shape, SInv, TypeOK
    <3>2. 1 \in 1 .. Len(<<r>>)
      BY <2>1
    <3> QED BY <2>1, <3>1, <3>2
  <2>5. /\ acked \in Seq(S) /\ Len(acked) \in Nat /\ Len(acked') = Len(acked) + 1
        /\ \A k \in 1 .. Len(acked) : acked'[k] = acked[k]
        /\ acked'[Len(acked) + 1] = r
    BY <2>1, <2>2, AppendProperties, LenProperties DEF Shape
  <2>6. /\ records \in Seq(S) /\ Len(records) \in Nat /\ Len(records') = Len(records) + 1
        /\ \A k \in 1 .. Len(records) : records'[k] = records[k]
        /\ records'[Len(records) + 1] = r
    BY <2>1, <2>2, AppendProperties, LenProperties DEF Shape
  <2>7. ASSUME NEW k \in 1 .. Len(acked')
        PROVE  /\ \E i \in 1 .. Len(lines') : \E j \in 1 .. Len(lines'[i]) : lines'[i][j] = acked'[k]
               /\ up' => \/ \E i \in 1 .. Len(records') : records'[i] = acked'[k]
                         \/ HiddenIn(lines', acked'[k])
    <3>1. CASE k = Len(acked) + 1
      <4>1. acked'[k] = r /\ Len(records) + 1 \in 1 .. Len(records')
        BY <2>5, <2>6, <3>1
      <4> QED BY <2>4, <2>6, <4>1
    <3>2. CASE k \in 1 .. Len(acked)
      <4>1. acked'[k] = acked[k]
        BY <2>5, <3>2
      <4>2. \E i \in 1 .. Len(lines') : \E j \in 1 .. Len(lines'[i]) : lines'[i][j] = acked[k]
        BY <2>3, <3>2 DEF AInv
      <4>3. ASSUME up, NEW i \in 1 .. Len(records), records[i] = acked[k]
            PROVE  \E j \in 1 .. Len(records') : records'[j] = acked[k]
        <5>1. i \in 1 .. Len(records') /\ records'[i] = acked[k]
          BY <2>6, <4>3
        <5> QED BY <5>1
      <4>4. up => (\E i \in 1 .. Len(records) : records[i] = acked[k]) \/ HiddenIn(lines, acked[k])
        BY <3>2 DEF AInv
      <4> QED BY <2>2, <2>3, <4>1, <4>2, <4>3, <4>4
    <3> QED BY <2>5, <3>1, <3>2
  <2> QED BY <2>7 DEF AInv
<1>3. ASSUME NEW value, NEW fault \in Faults, NEW stays \in BOOLEAN, AppendFails(value, fault, stays)
      PROVE  AInv'
  <2>1. fault \in AllFaults
    BY AuditAssumption
  <2>2. PICK S, pieces : Shape(S) /\ Write(pieces) /\ pieces \in Seq(S)
    BY <1>3, <2>1, FailedWrite
  <2>3. UNCHANGED acked /\ (up' => up /\ records' = records)
    BY <1>3 DEF AppendFails, Called
  <2>4. /\ \A a : (\E i \in 1 .. Len(lines) : \E j \in 1 .. Len(lines[i]) : lines[i][j] = a)
              => \E i \in 1 .. Len(lines') : \E j \in 1 .. Len(lines'[i]) : lines'[i][j] = a
        /\ \A a : HiddenIn(lines, a) => HiddenIn(lines', a)
    BY <2>2, FileKeeps
  <2>5. \A k \in 1 .. Len(acked) :
          \E i \in 1 .. Len(lines') : \E j \in 1 .. Len(lines'[i]) : lines'[i][j] = acked[k]
    BY <2>4 DEF AInv
  <2>6. up => \A k \in 1 .. Len(acked) :
                (\E i \in 1 .. Len(records) : records[i] = acked[k]) \/ HiddenIn(lines', acked[k])
    BY <2>4 DEF AInv
  <2> QED BY <2>3, <2>5, <2>6 DEF AInv
<1>4. ASSUME OpenAuditStore PROVE AInv'
  <2>1. UNCHANGED <<lines, open, acked>> /\ Verifies(lines)
    BY <1>4 DEF OpenAuditStore
  <2>2. /\ Len(records') = Len(lines)
        /\ \A i \in 1 .. Len(lines) : records'[i] = Head(lines[i])
    BY <1>1, <1>4, OpenReads
  <2>3. ASSUME NEW k \in 1 .. Len(acked)
        PROVE  (\E i \in 1 .. Len(records') : records'[i] = acked[k]) \/ HiddenIn(lines, acked[k])
    <3>1. PICK i \in 1 .. Len(lines) : \E j \in 1 .. Len(lines[i]) : lines[i][j] = acked[k]
      BY DEF AInv
    <3>2. PICK j \in 1 .. Len(lines[i]) : lines[i][j] = acked[k]
      BY <3>1
    <3>3. ~Head(lines[i]).torn
      BY <2>1 DEF Verifies, LineAccepted
    <3>4. CASE j = 1
      <4>1. records'[i] = acked[k]
        BY <2>2, <3>2, <3>4
      <4> QED BY <2>2, <4>1
    <3>5. CASE j # 1
      <4>1. j \in 2 .. Len(lines[i])
        BY <3>5
      <4> QED BY <3>2, <3>3, <4>1 DEF HiddenIn
    <3> QED BY <3>4, <3>5
  <2> QED BY <2>1, <2>3 DEF AInv
<1>5. ASSUME Stop \/ UNCHANGED vars PROVE AInv'
  <2>1. UNCHANGED <<lines, acked>> /\ (up' => up /\ records' = records)
    BY <1>5 DEF Stop, vars
  <2> QED BY <2>1 DEF AInv
<1> QED BY <1>2, <1>3, <1>4, <1>5 DEF Next

(* What stands behind a whole object is what Hidden collects.                *)
LEMMA HiddenIsHidden ==
  ASSUME NEW S, Shape(S), NEW a, HiddenIn(lines, a)
  PROVE  a \in Hidden
<1>1. PICK i \in 1 .. Len(lines) :
        ~Head(lines[i]).torn /\ \E j \in 2 .. Len(lines[i]) : lines[i][j] = a
  BY DEF HiddenIn
<1>2. PICK j \in 2 .. Len(lines[i]) : lines[i][j] = a
  BY <1>1
<1>3. lines[i] \in Seq(S) /\ lines[i] # <<>> /\ Len(lines[i]) \in Nat
  BY DEF Shape
<1>4. /\ Tail(lines[i]) \in Seq(S) /\ Len(Tail(lines[i])) = Len(lines[i]) - 1
      /\ \A k \in 1 .. Len(Tail(lines[i])) : Tail(lines[i])[k] = lines[i][k + 1]
  BY <1>3, HeadTailProperties
<1>5. j - 1 \in DOMAIN Tail(lines[i]) /\ Tail(lines[i])[j - 1] = a
  BY <1>2, <1>3, <1>4
<1>6. a \in ToSet(Tail(lines[i]))
  BY <1>5 DEF ToSet
<1> QED BY <1>1, <1>6 DEF Hidden

(* A record whose Append reported success is in the history of every later   *)
(* run, whatever went wrong in other appends, unless it was written behind   *)
(* an object that lacked its newline.                                        *)
THEOREM AckedSurviveHolds == Spec => []AckedSurvive
<1>1. Init => AInv
  BY SInitInv
<1>2. SInv /\ AInv /\ [Next]_vars => AInv'
  BY AckedStep
<1>3. SInv /\ AInv => AckedSurvive
  <2> SUFFICES ASSUME SInv, AInv, up, NEW a \in ToSet(acked) PROVE a \in ToSet(records) \cup Hidden
    BY DEF AckedSurvive
  <2>1. PICK S : Shape(S)
    BY DEF SInv
  <2>2. PICK k \in 1 .. Len(acked) : a = acked[k]
    BY <2>1 DEF Shape, ToSet
  <2>3. CASE \E i \in 1 .. Len(records) : records[i] = acked[k]
    BY <2>1, <2>2, <2>3 DEF Shape, ToSet
  <2>4. CASE HiddenIn(lines, a)
    BY <2>1, <2>4, HiddenIsHidden
  <2> QED BY <2>2, <2>3, <2>4 DEF AInv
<1> QED BY <1>1, <1>2, <1>3, AuditInvariance, PTL DEF Spec

(***************************************************************************)
(* What is written can be read, or why not.                                *)
(***************************************************************************)
(* A line as Append writes it is accepted unless its text does not survive   *)
(* the round trip.                                                           *)
LEMMA SoundIsAccepted ==
  ASSUME NEW i \in Nat, i > 0, LineSound(lines, i), i # 1 => LineSound(lines, i - 1)
  PROVE  LineAccepted(lines, i) <=> Head(lines[i]).text \notin {"escape", "full"}
<1> PICK r : r = Head(lines[i])
  OBVIOUS
<1>1. /\ lines[i] = <<r>> /\ ~r.torn /\ r.seq = i
      /\ r.text \in {"plain", "bytes", "escape", "full"}
      /\ r.hash = <<r.seq, r.id, r.prev, r.text>>
  BY DEF LineSound
<1>2. r.prev = IF i = 1 THEN Genesis ELSE Head(lines[i - 1]).hash
  BY DEF LineSound
<1>3. i # 1 => ~Head(lines[i - 1]).torn
  BY DEF LineSound
<1>4. (\A k \in 1 .. Len(lines[i]) : ~lines[i][k].torn => lines[i][k].text # "full")
        <=> r.text # "full"
  BY <1>1
<1>5. /\ r.text = "plain" => Encode(Decode(r.text)) = "plain"
      /\ r.text = "bytes" => Encode(Decode(r.text)) = "bytes"
      /\ r.text = "escape" => Encode(Decode(r.text)) = "bytes"
  BY DEF Encode, Decode
<1>6. r.text # "full" =>
        (r.hash = auditHash(r.seq, r.id, r.prev, Decode(r.text)) <=> r.text # "escape")
  BY <1>1, <1>5 DEF auditHash
<1>7. LineAccepted(lines, i) <=> /\ r.text # "full"
                                /\ r.hash = auditHash(r.seq, r.id, r.prev, Decode(r.text))
  <2>1. CASE i = 1
    BY <1>1, <1>2, <1>4, <2>1 DEF LineAccepted
  <2>2. CASE i # 1
    BY <1>1, <1>2, <1>3, <1>4, <2>2 DEF LineAccepted
  <2> QED BY <2>1, <2>2
<1> QED BY <1>6, <1>7

(* A new line is sound after those before it (Append 44-89).                 *)
LEMMA ReadableStep ==
  ASSUME SInv, RInv, [Next]_vars
  PROVE  RInv'
<1>1. PICK S0 : Shape(S0)
  BY DEF SInv
<1>2. ASSUME NEW value \in Texts, AppendOk(value), ~faulted PROVE RInv'
  <2> PICK r : r = NewRecord(value)
    OBVIOUS
  <2> PICK S : S = S0 \cup {r}
    OBVIOUS
  <2> DEFINE n == Len(lines)
  <2>1. Shape(S) /\ r \in S /\ <<r>> \in Seq(S) /\ <<r>> # <<>>
    BY <1>1, ShapeGrows
  <2>2. /\ Write(<<r>>) /\ records' = Append(records, r) /\ last' = r.hash /\ open' = FALSE
        /\ up /\ value \in {"plain", "U+FFFD", "cut", "full"}
    BY <1>2, AuditAssumption DEF AppendOk, Called
  <2>3. /\ ~open /\ Len(records) = n
        /\ last = IF lines = <<>> THEN Genesis ELSE Head(lines[n]).hash
    BY <1>2, <2>2 DEF RInv
  <2>4. lines' = Append(lines, <<r>>)
    BY <2>1, <2>2, <2>3 DEF Write
  <2>5. /\ n \in Nat /\ Len(lines') = n + 1 /\ lines' # <<>> /\ (lines = <<>> <=> n = 0)
        /\ \A i \in 1 .. n : lines'[i] = lines[i]
        /\ lines'[n + 1] = <<r>>
    <3>1. lines \in Seq(Seq(S) \ {<<>>}) /\ <<r>> \in Seq(S) \ {<<>>}
      BY <2>1 DEF Shape
    <3>2. n \in Nat /\ (lines = <<>> <=> n = 0)
      BY <3>1, EmptySeq, LenProperties
    <3> QED BY <2>4, <3>1, <3>2, AppendProperties
  <2>6. Len(records') = n + 1
    BY <2>1, <2>2, <2>3, AppendProperties DEF Shape
  <2>7. /\ r.torn = FALSE /\ r.text \in {"plain", "bytes", "escape", "full"}
        /\ r.seq = n + 1 /\ r.prev = last
        /\ r.hash = <<r.seq, r.id, r.prev, r.text>>
    BY <2>2, <2>3 DEF NewRecord, Encode, auditHash
  <2>8. Head(lines'[n + 1]) = r
    BY <2>5
  <2>9. ASSUME NEW i \in 1 .. n PROVE LineSound(lines', i)
    <3>1. LineSound(lines, i)
      BY <1>2 DEF RInv
    <3>2. lines'[i] = lines[i] /\ (i # 1 => lines'[i - 1] = lines[i - 1])
      BY <2>5
    <3> QED BY <3>1, <3>2 DEF LineSound
  <2>10. LineSound(lines', n + 1)
    <3>1. r.prev = IF n + 1 = 1 THEN Genesis ELSE Head(lines'[(n + 1) - 1]).hash
      BY <2>3, <2>5, <2>7
    <3> QED BY <2>5, <2>7, <2>8, <3>1 DEF LineSound
  <2>11. \A i \in 1 .. Len(lines') : LineSound(lines', i)
    BY <2>5, <2>9, <2>10
  <2> QED BY <2>2, <2>5, <2>6, <2>8, <2>11 DEF RInv
<1>3. ASSUME NEW value, NEW fault, NEW stays, AppendFails(value, fault, stays) PROVE RInv'
  BY <1>3 DEF AppendFails, RInv
<1>4. ASSUME OpenAuditStore PROVE RInv'
  <2>1. UNCHANGED <<lines, open, faulted>>
    BY <1>4 DEF OpenAuditStore
  <2>2. /\ Len(records') = Len(lines)
        /\ last' = IF lines = <<>> THEN Genesis ELSE Head(lines[Len(lines)]).hash
    BY <1>1, <1>4, OpenReads
  <2> QED BY <2>1, <2>2 DEF RInv, LineSound
<1>5. ASSUME Stop \/ UNCHANGED vars PROVE RInv'
  <2>1. UNCHANGED <<lines, open, faulted>> /\ (up' => up /\ records' = records /\ last' = last)
    BY <1>5 DEF Stop, vars
  <2> QED BY <2>1 DEF RInv, LineSound
<1>6. ASSUME NEW value \in Texts, AppendOk(value), faulted PROVE RInv'
  BY <1>6 DEF AppendOk, RInv
<1> QED BY <1>2, <1>3, <1>4, <1>5, <1>6 DEF Next

(* Until an append fails, what was written verifies exactly if no record has *)
(* a value cut inside a character or fills its line to the limit.            *)
THEOREM WrittenIsReadableHolds == Spec => []WrittenIsReadable
<1>1. Init => RInv
  BY SInitInv
<1>2. SInv /\ RInv /\ [Next]_vars => RInv'
  BY ReadableStep
<1>3. SInv /\ RInv => WrittenIsReadable
  <2> SUFFICES ASSUME SInv, RInv, ~faulted, NEW i \in 1 .. Len(lines)
               PROVE  LineAccepted(lines, i) <=> Head(lines[i]).text \notin {"escape", "full"}
    BY DEF WrittenIsReadable, Verifies
  <2>1. Len(lines) \in Nat
    BY DEF SInv, Shape
  <2>2. LineSound(lines, i) /\ (i # 1 => LineSound(lines, i - 1))
    BY <2>1 DEF RInv
  <2> QED BY <2>1, <2>2, SoundIsAccepted
<1> QED BY <1>1, <1>2, <1>3, AuditInvariance, PTL DEF Spec

=============================================================================
