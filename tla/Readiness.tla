------------------------------ MODULE Readiness ------------------------------
(***************************************************************************)
(* web/readiness.py: what the Portal says of the four gates, from two      *)
(* Markdown documents and two reports that people write by hand. A line is *)
(* what the code tells apart of it; a fence is a line of three backticks,  *)
(* bare, or with "text" or another word after them. Both documents want a  *)
(* conclusion and, after the line with a marker, one block of text that    *)
(* says the right thing: two digests, or thirteen paths, here two lines.   *)
(***************************************************************************)
EXTENDS Naturals, FiniteSets, SequencesExt

CONSTANTS None, MaxEdits

VARIABLES
    document,   \* the documents of gates 2 and 3, or None: it cannot be read
    report,     \* what the two reports of gate 4 are
    edits

vars == <<document, report, edits>>

Fences == {"fence", "text fence", "other fence"}
Conclusions == {"conclusion", "other conclusion"}
Wanted == <<"first", "second">>
Lines == Fences \cup Conclusions
         \cup {"marker", "marker twice", "first", "second", "blank", "prose"}

NoneAssumption == None # Wanted

Complete == <<"conclusion", "marker", "text fence", "first", "second", "fence", "prose">>
Quoting == <<"conclusion", "other fence", "other conclusion", "fence", "blank">> \o Tail(Complete)
Reports == {"unavailable", "malformed", "without safety", "failing", "passing"}

Init ==
    /\ document \in [{2, 3} -> {Complete, Quoting}]
    /\ report = [name \in {"lifecycle", "compatibility"} |-> "passing"]
    /\ edits = 0

----------------------------------------------------------------------------
(* _parse_markdown                                                         *)

NewParse == [opening |-> 0, outside |-> {}, blocks |-> {}, failed |-> FALSE]

Closed(doc, parse, n) ==
    [parse EXCEPT !.blocks = @ \cup {[opening |-> parse.opening, closing |-> n,
                                      content |-> SubSeq(doc, parse.opening + 1, n - 1)]},
                  !.opening = 0]

\* Mutant: whatever follows the backticks, the fence closes a block.
ParseLineLoosely(doc, parse, n) ==
    CASE parse.opening = 0 /\ doc[n] \notin Fences -> [parse EXCEPT !.outside = @ \cup {n}]
      [] parse.opening = 0 /\ doc[n] \in Fences -> [parse EXCEPT !.opening = n]
      [] parse.opening # 0 /\ doc[n] \in Fences -> Closed(doc, parse, n)
      [] OTHER -> parse

ParseLine(doc, parse, n) ==
    CASE parse.opening = 0 /\ doc[n] \notin Fences -> [parse EXCEPT !.outside = @ \cup {n}]
      [] parse.opening = 0 /\ doc[n] \in Fences -> [parse EXCEPT !.opening = n]
      [] parse.opening # 0 /\ doc[n] = "fence" -> Closed(doc, parse, n)
      [] parse.opening # 0 /\ doc[n] \in Fences \ {"fence"} -> [parse EXCEPT !.failed = TRUE]
      [] OTHER -> parse

Parse(doc) ==
    LET upto[n \in 0..Len(doc)] ==
            IF n = 0 THEN NewParse
            ELSE LET parse == upto[n - 1] IN
                 IF parse.failed THEN parse ELSE ParseLine(doc, parse, n)
        parse == upto[Len(doc)]
    IN  [parse EXCEPT !.failed = @ \/ parse.opening # 0]

----------------------------------------------------------------------------
(* _text_block_after_marker, _single_gate_2_conclusion                     *)

Markers(doc, lines) ==
    Cardinality({n \in lines : doc[n] = "marker"})
    + 2 * Cardinality({n \in lines : doc[n] = "marker twice"})

\* The first line from n on that is not blank, or the one after the last.
NotBlank(doc, n) ==
    CHOOSE m \in n..Len(doc) + 1 :
        /\ m \in DOMAIN doc => doc[m] # "blank"
        /\ \A k \in n..m - 1 : doc[k] = "blank"

\* What the block holds, None when the marker or the block is not as it should be.
TextBlock(doc, parse) ==
    LET lines == {n \in DOMAIN doc : doc[n] \in {"marker", "marker twice"}}
        opening == {b.opening : b \in parse.blocks}
        found == {b \in parse.blocks :
                     /\ Markers(doc, parse.outside) = 1 /\ Cardinality(lines) = 1
                     /\ b.opening \in {NotBlank(doc, n + 1) : n \in lines}
                     /\ doc[b.opening] = "text fence"
                     /\ NotBlank(doc, b.closing + 1) \notin opening}
    IN  IF found = {} THEN None ELSE (CHOOSE b \in found : TRUE).content

\* The conclusions, in their order, must be the one that is wanted.
Concludes(doc, parse) ==
    LET lines == {n \in parse.outside : doc[n] \in Conclusions}
    IN  Cardinality(lines) = 1 /\ \A n \in lines : doc[n] = "conclusion"

----------------------------------------------------------------------------
(* _gate_1 to _gate_4 and build_readiness_presentation                     *)

Judged(doc, holds(_, _), good) ==
    LET parse == Parse(doc) IN
    IF doc = None THEN "UNKNOWN"
    ELSE IF ~parse.failed /\ holds(doc, parse) THEN good ELSE "FAIL"

ConcludesWithBlock(doc, parse) == Concludes(doc, parse) /\ TextBlock(doc, parse) = Wanted

\* Gate 1 has no document of its own: the one of gate 2 vouches for it.
Gate1 == Judged(document[2], ConcludesWithBlock, "VERIFIED")
Gate2 == Judged(document[2], Concludes, "COMPLETED_WITH_CONCERNS")
Gate3 == Judged(document[3], ConcludesWithBlock, "COMPLETED")

Gate4 ==
    LET found == {report[name] : name \in DOMAIN report} IN
    IF found \cap {"unavailable", "malformed"} # {} THEN "UNKNOWN"
    ELSE IF found = {"passing"} THEN "PASS" ELSE "FAIL"

EvidenceClosed ==
    <<Gate1, Gate2, Gate3, Gate4>> =
        <<"VERIFIED", "COMPLETED_WITH_CONCERNS", "COMPLETED", "PASS">>

----------------------------------------------------------------------------
(* What is written                                                         *)

Write(gate, doc) ==
    /\ edits < MaxEdits
    /\ document' = [document EXCEPT ![gate] = doc]
    /\ edits' = edits + 1
    /\ UNCHANGED report

InsertLine(gate) ==
    /\ document[gate] # None
    /\ \E n \in 1..Len(document[gate]) + 1, line \in Lines :
          Write(gate, InsertAt(document[gate], n, line))

RemoveLine(gate) ==
    /\ document[gate] # None
    /\ \E n \in DOMAIN document[gate] : Write(gate, RemoveAt(document[gate], n))

LoseDocument(gate) == document[gate] # None /\ Write(gate, None)

Rewrite(name) ==
    /\ edits < MaxEdits
    /\ \E r \in Reports \ {report[name]} : report' = [report EXCEPT ![name] = r]
    /\ edits' = edits + 1
    /\ UNCHANGED document

Next ==
    \/ \E gate \in {2, 3} : InsertLine(gate) \/ RemoveLine(gate) \/ LoseDocument(gate)
    \/ \E name \in DOMAIN report : Rewrite(name)

Spec == Init /\ [][Next]_vars

----------------------------------------------------------------------------
(* Properties                                                              *)

(* A reader's account of a document, in which no line is parsed after      *)
(* another. A fence opens a block if an even number of them precede it.    *)
Before(doc, n) == Cardinality({m \in 1..n - 1 : doc[m] \in Fences})
Opens(doc, n) == doc[n] \in Fences /\ Before(doc, n) % 2 = 0
Prose(doc, n) == doc[n] \notin Fences /\ Before(doc, n) % 2 = 0
WellFormed(doc) ==
    /\ Before(doc, Len(doc) + 1) % 2 = 0
    /\ \A n \in DOMAIN doc : doc[n] \in Fences => Opens(doc, n) \/ doc[n] = "fence"
OneConclusion(doc) ==
    \E n \in DOMAIN doc :
        /\ Prose(doc, n) /\ doc[n] = "conclusion"
        /\ \A m \in DOMAIN doc \ {n} : Prose(doc, m) => doc[m] \notin Conclusions
Blank(doc, lines) == \A n \in lines : doc[n] = "blank"
WantedBlock(doc) ==
    \E m, n \in DOMAIN doc :
        /\ doc[m] = "marker" /\ Prose(doc, m)
        /\ \A k \in DOMAIN doc \ {m} : doc[k] \notin {"marker", "marker twice"}
        /\ m < n /\ Blank(doc, m + 1..n - 1) /\ Opens(doc, n)
        /\ n + 3 <= Len(doc)
        /\ doc[n] = "text fence" /\ SubSeq(doc, n + 1, n + 2) = Wanted /\ doc[n + 3] = "fence"
        /\ \A k \in n + 4..Len(doc) : Opens(doc, k) => ~Blank(doc, n + 4..k - 1)

(* The gates are judged as a reader would judge the documents: an example  *)
(* quoted in a block concludes nothing, a document with an open block or   *)
(* with two opinions is refused, and all is said to be closed only if each *)
(* of the four files says so.                                              *)
ReadAsWritten ==
    \A gate \in {2, 3} :
        LET doc == document[gate]
            good == doc # None /\ WellFormed(doc) /\ OneConclusion(doc)
            whole == good /\ WantedBlock(doc)
        IN  /\ gate = 2 => /\ Gate2 = "COMPLETED_WITH_CONCERNS" <=> good
                           /\ Gate1 = "VERIFIED" <=> whole
            /\ gate = 3 => (Gate3 = "COMPLETED" <=> whole)
            /\ EvidenceClosed => whole /\ \A name \in DOMAIN report : report[name] = "passing"

=============================================================================
