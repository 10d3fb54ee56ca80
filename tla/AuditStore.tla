----------------------------- MODULE AuditStore -----------------------------
(***************************************************************************)
(* security.AuditStore: the append-only, hash-chained audit file of        *)
(* quantum-control, one JSON object per line, with the records also kept   *)
(* in memory.  Append writes and syncs one line and only then advances the *)
(* memory; a start reads the file back, verifies every line and refuses to *)
(* start on the first that fails.                                          *)
(*                                                                         *)
(* A hash is modelled by what it hashes, an injective tuple.  The text of  *)
(* a record is a class of field values: "plain"; "U+FFFD", one with that   *)
(* character in it; "cut", a value truncated in the middle of a UTF-8      *)
(* character; "full", a line of exactly the size limit; "over", one beyond *)
(* it.  Encoding is json.Marshal's: a broken character is written as the   *)
(* escape \ufffd, which reads back as U+FFFD, which is written as its      *)
(* three bytes.                                                            *)
(***************************************************************************)
EXTENDS Naturals, Sequences, SequencesExt

CONSTANTS
  Texts,       \* the classes of field values callers log
  Faults,      \* what may go wrong in an append, of the names below
  MaxAppends,  \* bound on the calls of Append
  MaxBoots     \* bound on the restarts

VARIABLES
  up,      \* quantum-control is running
  lines,   \* the file: each line the sequence of pieces written on it
  open,    \* the last line of the file has no newline yet
  records, \* s.records; s.sequence is its length
  last,    \* s.lastHash
  acked,   \* the records Append returned without error (history)
  faulted, \* an append has gone wrong, ever (history)
  calls,   \* calls of Append so far; also the ID and time of a record
  boots    \* starts so far (history)

vars == <<up, lines, open, records, last, acked, faulted, calls, boots>>

Genesis == <<>>
Torn == [torn |-> TRUE]

(* Ways an append ends badly.  "none": before any byte was written; "torn":  *)
(* in the middle of the object; "noeol": all of the object but not the       *)
(* newline; "unsynced": all written, then Sync or Close fails.               *)
AllFaults == {"none", "torn", "noeol", "unsynced"}

ASSUME AuditAssumption ==
  /\ Texts \subseteq {"plain", "U+FFFD", "cut", "full", "over"}
  /\ Faults \subseteq AllFaults
  /\ MaxAppends \in Nat /\ MaxBoots \in Nat \ {0}

Encode(value) == CASE value = "cut" -> "escape"
                   [] value = "U+FFFD" -> "bytes"
                   [] OTHER -> value

Decode(text) == IF text \in {"escape", "bytes"} THEN "U+FFFD" ELSE text

auditHash(seq, id, prev, value) == <<seq, id, prev, Encode(value)>>

NewRecord(value) ==
  LET seq == Len(records) + 1
  IN [torn |-> FALSE, seq |-> seq, id |-> calls, prev |-> last, text |-> Encode(value),
      hash |-> auditHash(seq, calls, last, value)]

(* O_APPEND: pieces land on the open line, or on a new one.                  *)
Write(pieces) ==
  lines' = IF pieces = <<>> THEN lines
           ELSE IF open THEN [lines EXCEPT ![Len(lines)] = @ \o pieces]
           ELSE Append(lines, pieces)

Called == up /\ calls < MaxAppends /\ calls' = calls + 1

(***************************************************************************)
(* Append.  A record beyond the size limit is refused before the file is   *)
(* touched.                                                                *)
(***************************************************************************)
AppendStaleHead(value) == \* faulty: lastHash stays behind
  /\ Called /\ value # "over"
  /\ LET r == NewRecord(value) IN
       /\ Write(<<r>>)
       /\ records' = Append(records, r)
       /\ acked' = Append(acked, r)
  /\ open' = FALSE
  /\ UNCHANGED <<up, last, faulted, boots>>

AppendOk(value) ==
  /\ Called /\ value # "over"
  /\ LET r == NewRecord(value) IN
       /\ Write(<<r>>)
       /\ records' = Append(records, r)
       /\ last' = r.hash
       /\ acked' = Append(acked, r)
  /\ open' = FALSE
  /\ UNCHANGED <<up, faulted, boots>>

(* The append fails, or the process dies in it (stays = FALSE).  Memory does *)
(* not advance and the caller gets no record.                                *)
Broken(r, fault) == CASE fault = "none" -> <<>>
                      [] fault = "torn" -> <<Torn>>
                      [] OTHER -> <<r>>

AppendFails(value, fault, stays) ==
  /\ Called /\ value # "over"
  /\ Write(Broken(NewRecord(value), fault))
  /\ open' = CASE fault = "none" -> open
               [] fault \in {"torn", "noeol"} -> TRUE
               [] OTHER -> FALSE
  /\ faulted' = TRUE
  /\ up' = stays
  /\ IF stays THEN UNCHANGED <<records, last>> ELSE records' = <<>> /\ last' = Genesis
  /\ UNCHANGED <<acked, boots>>

Stop ==
  /\ up
  /\ up' = FALSE
  /\ records' = <<>> /\ last' = Genesis
  /\ UNCHANGED <<lines, open, acked, faulted, calls, boots>>

(***************************************************************************)
(* loadAndVerify.  The JSON decoder reads the first value on a line and    *)
(* nobody asks it for more; the scanner's buffer must hold the whole line  *)
(* and its newline.                                                        *)
(***************************************************************************)
LineAccepted(file, i) ==
  LET r == Head(file[i])
      previous == IF i = 1 THEN [hash |-> Genesis, torn |-> FALSE] ELSE Head(file[i - 1])
  IN /\ ~r.torn
     /\ \A k \in 1 .. Len(file[i]) : ~file[i][k].torn => file[i][k].text # "full"
     /\ r.seq = i /\ ~previous.torn /\ r.prev = previous.hash
     /\ r.hash = auditHash(r.seq, r.id, r.prev, Decode(r.text))

Verifies(file) == \A i \in 1 .. Len(file) : LineAccepted(file, i)

OpenSkippingTheTail == \* faulty: drops a last line that does not verify
  /\ ~up /\ boots < MaxBoots
  /\ LET sound == IF Verifies(lines) THEN lines ELSE Front(lines) IN
       /\ Verifies(sound)
       /\ records' = [i \in 1 .. Len(sound) |-> Head(sound[i])]
       /\ last' = IF sound = <<>> THEN Genesis ELSE Head(Last(sound)).hash
  /\ up' = TRUE
  /\ boots' = boots + 1
  /\ UNCHANGED <<lines, open, acked, faulted, calls>>

OpenAuditStore ==
  /\ ~up /\ boots < MaxBoots
  /\ Verifies(lines)
  /\ up' = TRUE
  /\ records' = [i \in 1 .. Len(lines) |-> Head(lines[i])]
  /\ last' = IF lines = <<>> THEN Genesis ELSE Head(Last(lines)).hash
  /\ boots' = boots + 1
  /\ UNCHANGED <<lines, open, acked, faulted, calls>>

Init ==
  /\ up = TRUE
  /\ lines = <<>> /\ open = FALSE
  /\ records = <<>> /\ last = Genesis
  /\ acked = <<>>
  /\ faulted = FALSE
  /\ calls = 0
  /\ boots = 1

Next ==
  \/ \E value \in Texts : AppendOk(value)
  \/ \E value \in Texts, fault \in Faults, stays \in BOOLEAN :
       AppendFails(value, fault, stays)
  \/ Stop
  \/ OpenAuditStore

Spec == Init /\ [][Next]_vars

-----------------------------------------------------------------------------
(* Types; an unfinished line is a line, and no line of the file is empty     *)
(* (loadAndVerify refuses an empty one, 157-159).                            *)
TypeOK ==
  /\ up \in BOOLEAN /\ open \in BOOLEAN /\ faulted \in BOOLEAN
  /\ boots \in 1 .. MaxBoots
  /\ calls \in 0 .. MaxAppends
  /\ open => lines # <<>>
  /\ \A i \in 1 .. Len(lines) : lines[i] # <<>>

(* The pieces that stand behind a whole object on their line: the decoder    *)
(* never gets to them.                                                       *)
Hidden == UNION {ToSet(Tail(lines[i])) : i \in {j \in 1 .. Len(lines) : ~Head(lines[j]).torn}}

(* After any start that succeeds, and while it runs, every record whose      *)
(* Append reported success is in the history, whatever went wrong in other   *)
(* appends: damage may keep the store down, but hides no acknowledged record *)
(* in silence.  The one way for a record to be lost is that it was written   *)
(* behind an object that lacked nothing but its newline (86, 161-163).       *)
AckedSurvive == up => ToSet(acked) \subseteq ToSet(records) \cup Hidden

(* Records carry the numbers 1, 2, 3... and each the hash of the one before, *)
(* in memory at any time, failed appends and restarts included.              *)
MemoryIsChain ==
  /\ \A i \in 1 .. Len(records) :
       /\ records[i].seq = i
       /\ records[i].prev = IF i = 1 THEN Genesis ELSE records[i - 1].hash
  /\ last = IF records = <<>> THEN Genesis ELSE Last(records).hash

(* Until an append has gone wrong, all that Append writes loadAndVerify      *)
(* reads back, over any number of restarts, but for two kinds of record with *)
(* which the next start fails: one with a value cut inside a character (258, *)
(* 278) and one that fills the line to the limit (75, 150).                  *)
WrittenIsReadable ==
  ~faulted => (Verifies(lines) <=>
                 \A i \in 1 .. Len(lines) : Head(lines[i]).text \notin {"escape", "full"})

=============================================================================
