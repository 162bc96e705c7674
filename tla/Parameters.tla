------------------------------ MODULE Parameters ------------------------------
(***************************************************************************)
(* The file HLTparameters and its readers.  Each opens a stream of its own *)
(* and takes word after word: a word that is the name of a setting makes   *)
(* it read the setting next, any other word is passed over.  What a read   *)
(* does depends on the state of the stream: the base of integers, which    *)
(* stays as it was set last, and the flags, for the loop ends at the end   *)
(* of the file but not at a word that is no number.                        *)
(*                                                                         *)
(* One name stands for those a reader reads in the same way, one hit map   *)
(* for the 24 of the sectors.  Words that are numbers are those in Dec.    *)
(***************************************************************************)
EXTENDS Integers, Sequences

CONSTANTS
  File,      \* what run control may have put there: [found, lines, newline]
  Dec, Hex,  \* what a word is as an integer of base 10 and 16
  NRow,      \* rows of the 8-row space charge
  NColumn    \* numbers in a row

Process == {"node", "server"}
Reader  == {"hitMap", "decider", "collector", "server"}

(* How each reader reads its settings.  The decider reads its cuts after   *)
(* its switches and bits, the first of them with ifs >> dec.               *)
DeciderBits == [triggerOnHighPt |-> "int", triggerBitHighPt |-> "hex"]
DeciderCuts == [nHitsCut_highPt |-> "dec", nHitsCut_diElectron |-> "int",
                spaceChargeP0 |-> "real", sigmaDedx1 |-> "real"]
DeciderSettings ==
  [p \in DOMAIN DeciderBits \cup DOMAIN DeciderCuts |->
     IF p \in DOMAIN DeciderBits THEN DeciderBits[p] ELSE DeciderCuts[p]]
CollectorSettings == [matchAllEMC |-> "int", updateBeamline |-> "real", sigmaDedx1 |-> "real"]
HitMapSettings    == [scalerToUse |-> "int", spaceChargeP0 |-> "real", rowSpaceCharge |-> "rows"]
ServerSettings    == [updateBeamline |-> "int", listenPort |-> "int"]

Settings == [decider |-> DeciderSettings, collector |-> CollectorSettings,
             hitMap |-> HitMapSettings, server |-> ServerSettings]

Known(r) == DOMAIN Settings[r]
Number == DOMAIN Dec

Default == -1   \* what the constructor assigns
Unset    == -2   \* the collector's constructor assigns nothing
Initial(r) == IF r = "collector" THEN Unset ELSE Default
NoRows == [i \in 0..NRow-1 |-> [c \in 1..NColumn |-> 0]]

(* The words of a file, line after line.                                   *)
Words(f) ==
  LET upTo[n \in 0..Len(f.lines)] == IF n = 0 THEN <<>> ELSE upTo[n-1] \o f.lines[n]
  IN upTo[Len(f.lines)]

ASSUME ParametersAssumption ==
  /\ File \subseteq [found : BOOLEAN, lines : Seq(Seq(STRING) \ {<<>>}), newline : BOOLEAN]
  /\ \A f \in File : ~f.found => f.lines = <<>>
  /\ Dec \in [Number -> Nat] /\ Hex \in [Number -> Nat]
  /\ NRow \in Nat \ {0} /\ NColumn \in Nat \ {0}
  /\ \A r \in Reader : Known(r) \cap Number = {}

(* A line begins with a name, and no name of a setting comes later in it.  *)
ASSUME LinesAssumption ==
  \A f \in File : \A n \in DOMAIN f.lines :
    /\ f.lines[n][1] \notin Number
    /\ \A i \in 2..Len(f.lines[n]) : \A r \in Reader : f.lines[n][i] \notin Known(r)

VARIABLES
  file, process,  \* the file, and the process that starts
  turn,           \* the reader whose turn it is, a position in Order
  stage,          \* "closed", "head" of the loop, "name" read, or "rows"
  pos, base, fail, eof,   \* the stream
  parameterName,
  row,            \* loop variable of the 8-row space charge
  setting,        \* per reader, what it has set
  rows, use8rowSpaceChargeMethod

stream == <<pos, base, fail, eof>>
parVars == <<file, process, turn, stage, stream, parameterName, row, setting, rows,
          use8rowSpaceChargeMethod>>

(* The collector has its trigger decider read twice: in its constructor,   *)
(* and after the collector has read.                                       *)
Order == [node |-> <<"hitMap", "decider", "collector", "decider">>, server |-> <<"server">>]
Turns   == DOMAIN Order[process]
reader  == Order[process][turn]
words   == Words(file)

ParInit ==
  /\ file \in File /\ process \in Process
  /\ turn = 1 /\ stage = "closed"
  /\ pos = 1 /\ base = 10 /\ fail = FALSE /\ eof = FALSE
  /\ parameterName = "" /\ row = 0
  /\ setting = [r \in Reader |-> [p \in Known(r) |-> Initial(r)]]
  /\ rows = NoRows /\ use8rowSpaceChargeMethod = FALSE

------------------------------------------------------------------------------
Open ==
  /\ stage = "closed" /\ turn \in Turns /\ file.found
  /\ stage' = "head" /\ parameterName' = ""
  /\ pos' = 1 /\ base' = 10 /\ fail' = FALSE /\ eof' = FALSE
  /\ UNCHANGED <<file, process, turn, row, setting, rows, use8rowSpaceChargeMethod>>

(* Without the file, a line in the log.                                    *)
NotFound ==
  /\ stage = "closed" /\ turn \in Turns /\ ~file.found
  /\ turn' = turn + 1
  /\ UNCHANGED <<file, process, stage, stream, parameterName, row, setting, rows,
                 use8rowSpaceChargeMethod>>

(* The stream after a read that takes n words: a word at the very end of   *)
(* the file is only known to end there.                                    *)
Take(n) ==
  /\ pos' = pos + n
  /\ eof' = (pos + n > Len(words) /\ ~file.newline)
  /\ UNCHANGED fail

(* A read of a stream that is not good takes nothing; neither does one     *)
(* that meets the end of the file, which is then known.                    *)
TakeNone ==
  /\ fail' = TRUE
  /\ eof' = (eof \/ (~fail /\ pos > Len(words)))
  /\ UNCHANGED pos

Good == ~fail /\ ~eof /\ pos <= Len(words)

(* The loop ends only with a stream that saw the end of the file.          *)
Ended_OrFailed == eof \/ fail

Ended_NotFailed == eof /\ ~fail

Ended == eof

(* ifs >> parameterName: what was read before stays if nothing is read.    *)
ReadName ==
  /\ stage = "head" /\ ~Ended
  /\ IF Good THEN parameterName' = words[pos] /\ Take(1)
             ELSE TakeNone /\ UNCHANGED parameterName
  /\ stage' = "name"
  /\ UNCHANGED <<file, process, turn, base, row, setting, rows, use8rowSpaceChargeMethod>>

(* No setting of that name: the next word.                                 *)
PassOver ==
  /\ stage = "name" /\ parameterName \notin Known(reader)
  /\ stage' = "head"
  /\ UNCHANGED <<file, process, turn, stream, parameterName, row, setting, rows,
                 use8rowSpaceChargeMethod>>

Kind == Settings[reader][parameterName]

(* The first cut does not set the base.                                    *)
BaseFor_NoDec(kind) == IF kind = "hex" THEN 16 ELSE base

(* ifs >> hex, ifs >> dec: the base stays for the reads that follow.       *)
BaseFor(kind) == CASE kind = "hex" -> 16 [] kind = "dec" -> 10 [] OTHER -> base

ValueOf(word, kind) == IF kind # "real" /\ BaseFor(kind) = 16 THEN Hex[word] ELSE Dec[word]

(* A word that is no number sets the setting to 0, and the stream is not   *)
(* good from then on.                                                      *)
ReadValue ==
  /\ stage = "name" /\ parameterName \in Known(reader) /\ Kind # "rows"
  /\ base' = BaseFor(Kind)
  /\ IF Good /\ words[pos] \in Number
       THEN /\ setting' = [setting EXCEPT ![reader][parameterName] = ValueOf(words[pos], Kind)]
            /\ Take(1)
       ELSE /\ setting' = IF Good THEN [setting EXCEPT ![reader][parameterName] = 0] ELSE setting
            /\ TakeNone
  /\ stage' = "head"
  /\ UNCHANGED <<file, process, turn, parameterName, row, rows, use8rowSpaceChargeMethod>>

StartRows ==
  /\ stage = "name" /\ parameterName \in Known(reader) /\ Kind = "rows"
  /\ use8rowSpaceChargeMethod' = TRUE
  /\ stage' = "rows" /\ row' = 0
  /\ UNCHANGED <<file, process, turn, stream, parameterName, setting, rows>>

(* One row too many.                                                       *)
MoreRows_OneMore == row <= NRow

MoreRows == row < NRow

(* The numbers that can be read of the next row; after them a word that is *)
(* none becomes 0, and the rest stays.                                     *)
Readable ==
  IF ~Good THEN 0
  ELSE CHOOSE n \in 0..NColumn :
         /\ pos + n - 1 <= Len(words) /\ \A i \in 0..n-1 : words[pos+i] \in Number
         /\ n < NColumn => (pos + n > Len(words) \/ words[pos+n] \notin Number)

ReadRow ==
  /\ stage = "rows" /\ MoreRows
  /\ rows' = [rows EXCEPT ![row] =
                [c \in 1..NColumn |->
                   IF c <= Readable THEN Dec[words[pos+c-1]]
                   ELSE IF c = Readable+1 /\ Good /\ pos+Readable <= Len(words) THEN 0
                   ELSE @[c]]]
  /\ IF Readable = NColumn
       THEN Take(NColumn)
       ELSE /\ pos' = pos + Readable /\ fail' = TRUE
            /\ eof' = (eof \/ (~fail /\ pos + Readable > Len(words)))
  /\ row' = row + 1
  /\ UNCHANGED <<file, process, turn, stage, base, parameterName, setting,
                 use8rowSpaceChargeMethod>>

EndRows ==
  /\ stage = "rows" /\ ~MoreRows
  /\ stage' = "head"
  /\ UNCHANGED <<file, process, turn, stream, parameterName, row, setting, rows,
                 use8rowSpaceChargeMethod>>

Close ==
  /\ stage = "head" /\ Ended
  /\ stage' = "closed" /\ turn' = turn + 1
  /\ UNCHANGED <<file, process, stream, parameterName, row, setting, rows,
                 use8rowSpaceChargeMethod>>

ParNext ==
  \/ Open \/ NotFound \/ ReadName \/ PassOver \/ ReadValue
  \/ StartRows \/ ReadRow \/ EndRows \/ Close

ParFairness == WF_parVars(ParNext)
ParSpec == ParInit /\ [][ParNext]_parVars /\ ParFairness

------------------------------------------------------------------------------
Started == turn \notin Turns

(* Reading stays inside the arrays and the file; each setting holds a      *)
(* number, and the collector's what its memory held.                       *)
ParTypeOK ==
  /\ file \in File /\ process \in Process
  /\ turn \in 1..Len(Order[process])+1 /\ stage \in {"closed", "head", "name", "rows"}
  /\ pos \in 1..Len(words)+1 /\ base \in {10, 16} /\ fail \in BOOLEAN /\ eof \in BOOLEAN
  /\ parameterName \in {""} \cup {words[i] : i \in 1..Len(words)} /\ row \in 0..NRow
  /\ DOMAIN setting = Reader /\ \A r \in Reader : setting[r] \in [Known(r) -> {Initial(r)} \cup Nat]
  /\ rows \in [0..NRow-1 -> [1..NColumn -> Nat]]
  /\ use8rowSpaceChargeMethod \in BOOLEAN

(* A line as a reader takes it: a setting and its numbers, or words that   *)
(* are none of its settings.                                               *)
Needs(r, p) == IF Settings[r][p] = "rows" THEN NRow * NColumn ELSE 1

Complete(r, l) ==
  /\ l[1] \in Known(r) /\ Len(l) > Needs(r, l[1])
  /\ \A i \in 2..Needs(r, l[1])+1 : l[i] \in Number

Sound(r, n) ==
  LET l == file.lines[n]
  IN \/ l[1] \notin Known(r) \/ Complete(r, l)
     \/ n = Len(file.lines) /\ \A i \in 2..Len(l) : l[i] \in Number

FileSound == \A n \in DOMAIN file.lines : \A t \in Turns : Sound(Order[process][t], n)

(* The order that the decider expects: no integer after a trigger bit      *)
(* without the first cut in between.                                       *)
KindOf(r, n) == IF file.lines[n][1] \in Known(r) THEN Settings[r][file.lines[n][1]] ELSE "none"
InOrder(r) ==
  \A m, n \in DOMAIN file.lines :
    m < n /\ KindOf(r, m) = "hex" /\ KindOf(r, n) = "int" =>
      \E k \in m..n : KindOf(r, k) = "dec"

(* The last line that gives a setting, and the value there.                *)
Given(r, p) == {n \in DOMAIN file.lines : file.lines[n][1] = p /\ Complete(r, file.lines[n])}
LastOf(r, p) == file.lines[CHOOSE n \in Given(r, p) : \A k \in Given(r, p) : k <= n]

Meant(r, p) ==
  IF Given(r, p) = {} THEN Initial(r)
  ELSE IF Settings[r][p] = "hex" THEN Hex[LastOf(r, p)[2]] ELSE Dec[LastOf(r, p)[2]]

(* The rows, unless the last line is cut off in the middle of them.        *)
RowsMeant(p) ==
  LET l == file.lines[Len(file.lines)]
  IN \/ file.lines # <<>> /\ l[1] = p /\ ~Complete("hitMap", l)
     \/ rows = IF Given("hitMap", p) = {} THEN NoRows
               ELSE [i \in 0..NRow-1 |-> [c \in 1..NColumn |->
                       Dec[LastOf("hitMap", p)[1 + NColumn * i + c]]]]

(* When a process has started, every reader has what the file says: of     *)
(* several lines with one name the last, also when it is the last word of  *)
(* a file without a final newline; and what the file does not name is as   *)
(* the constructor left it.  The two readings of the decider agree, and    *)
(* readers of one setting have the same.                                   *)
AsWritten ==
  Started => \A t \in Turns :
    LET r == Order[process][t]
    IN InOrder(r) => \A p \in Known(r) :
         IF Settings[r][p] = "rows" THEN RowsMeant(p) ELSE setting[r][p] = Meant(r, p)

(* A process does not start with a file that one of its readers could not  *)
(* read: one word that is not a number where one is due keeps it in the    *)
(* loop, the last line excepted, which may be cut off ...                  *)
StartsOnlyIfSound == Started => FileSound

(* ... and it starts with any other.                                       *)
StartsIfSound == FileSound => <>Started
=============================================================================
