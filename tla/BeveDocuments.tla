--------------------------- MODULE BeveDocuments ----------------------------
(***************************************************************************)
(* A BEVE document from end to end.  Either some bytes are handed in, as   *)
(* anyone may, or a value is written, a piece at a time, to a sink that    *)
(* may fail or onto the end of a caller's buffer by a write that may       *)
(* unwind.  Then it is read: as a Value, as declared types, at a pointer,  *)
(* as JSON, and by a program that tries one read after another and winds   *)
(* the reader back when one fails.                                         *)
(***************************************************************************)
EXTENDS BeveWriter, BeveTyped, BeveTranscode, BevePointer

CONSTANTS
  Setups,      \* documents handed in: an opening, then up to max of some chunks, and
               \* the types, pointers and former values they are read with
  Writings,    \* the types and values that are written
  Policies,    \* how they are written: skipNull and aligned
  Writers,     \* the writers they are written with, and the offset they begin at
  MaxCalls     \* bound on the reads of one reader

VARIABLES
  stage,   \* "start", "writing", "unwound", "written", "reading"
  job,     \* what is written: its type, value and policy, and its pieces
  done,    \* how many of the pieces are
  w,       \* the writer
  base,    \* history: the bytes the caller had, and the document's offset
  doc,     \* the document
  given,   \* the setup it was handed in under, 0 for none
  r,       \* a reader of it
  calls,   \* how many reads that reader has seen
  last     \* how the last one came out

dvars == <<stage, job, done, w, base, doc, given, r, calls, last>>

NoJob   == [type |-> Unit, node |-> Null, o |-> [skipNull |-> FALSE, aligned |-> FALSE],
            pieces |-> <<>>]
NoSetup == [types |-> <<>>, pointers |-> <<>>, olds |-> <<>>]
Reads   == IF given = 0 THEN NoSetup ELSE Setups[given]

Init ==
  /\ stage = "start" /\ job = NoJob /\ done = 0 /\ doc = <<>> /\ given = 0
  /\ w = Appending(<<>>, 0) /\ base = [held |-> <<>>, offset |-> 0]
  /\ r = NewReader(Standard, <<>>) /\ calls = 0 /\ last = "none"

\* A document is handed in.
Given ==
  /\ stage = "start" /\ stage' = "reading"
  /\ given' \in DOMAIN Setups
  /\ \E s \in {Setups[given']} : \E n \in 0 .. s.max : \E tail \in [1 .. n -> s.chunks] :
       /\ doc' = s.opening \o FlattenSeq(tail)
       /\ r' \in {NewReader(o, doc') : o \in s.policies}
       /\ calls' = IF s.session THEN 0 ELSE MaxCalls
  /\ UNCHANGED <<job, done, w, base, last>>

-----------------------------------------------------------------------------
(* Writing: to_beve, append, to_writer and size of beve/mod.rs.            *)

Begin ==
  /\ stage = "start" /\ stage' = "writing"
  /\ \E k \in DOMAIN Writings : \E o \in Policies : \E v \in Writers :
       /\ job' = [type |-> Writings[k].type, node |-> Writings[k].node, o |-> o,
                  pieces |-> Pieces(o, Writings[k].type, Writings[k].node)]
       /\ base' = [held |-> v.writer.buf, offset |-> v.offset]
       /\ w' = AtOffset(v.writer, v.offset)
  /\ UNCHANGED <<done, doc, given, r, calls, last>>

WritePiece ==
  /\ stage = "writing" /\ done < Len(job.pieces)
  /\ w' = PutPiece(w, job.pieces[done + 1])
  /\ done' = done + 1
  /\ UNCHANGED <<stage, job, base, doc, given, r, calls, last>>

\* A Write that unwinds in the middle of append.
Unwind ==
  /\ stage = "writing" /\ ~w.sink /\ stage' = "unwound"
  /\ doc' = SubSeq(w.buf, 1, Len(base.held))
  /\ UNCHANGED <<job, done, w, base, given, r, calls, last>>

\* finish, or the end of append.
EndWriting ==
  /\ stage = "writing" /\ done = Len(job.pieces) /\ stage' = "written"
  /\ w' = Finished(w)
  /\ doc' = IF w.sink THEN w'.sent ELSE SubSeq(w.buf, Len(base.held) + 1, Len(w.buf))
  /\ UNCHANGED <<job, done, base, given, r, calls, last>>

-----------------------------------------------------------------------------
(* Reading, by a caller who speculates: a read that fails is wound back to *)
(* where it began, and another one is tried.                               *)

Called(q) ==
  /\ stage = "reading" /\ calls < MaxCalls
  /\ last' = q.code
  /\ r' = [(IF q.code = "none" THEN q ELSE Rewind([q EXCEPT !.code = "none"], r.pos)) EXCEPT !.val = 0]
  /\ calls' = calls + 1
  /\ UNCHANGED <<stage, job, done, w, base, doc, given>>

ReadOne == \E t \in Range(Reads.types) : Called(ReadType(t, r, Default(t)))
SkipOne == Called(Skip(r))
SeekOne == \E p \in Range(Reads.pointers) : Called(SeekTo(r, p))
Back    == Called(Rewind(r, 0))

Next == Given \/ Begin \/ WritePiece \/ Unwind \/ EndWriting \/ ReadOne \/ SkipOne \/ SeekOne \/ Back

Spec == Init /\ [][Next]_dvars

-----------------------------------------------------------------------------
(* What was written, said of bytes alone: no buffer and no sink.           *)

Expected(n) ==
  FoldLeft(LAMBDA t, p : t \o (IF p.by = "pad" THEN Padding(base.offset + Len(t), p.n) ELSE p.bytes),
           <<>>, SubSeq(job.pieces, 1, n))

\* Every unchecked store stays inside the allocation, and a sink's buffer never
\* holds more than it was made for and one piece.  The sink has, after what
\* the caller had, what the writer no longer holds, in order and with nothing
\* twice; after a failure, the beginning of it.  The offset that padding is
\* measured from is the document's own, whatever was drained, handed over,
\* refused or there before.  finish says ok exactly when the sink has the
\* whole document, size says how long it is, and a write that unwinds leaves
\* the caller's bytes as they were.
StreamedIsDocument ==
  LET text == Expected(done) IN
  /\ w.sound /\ Len(w.buf) <= w.cap
  /\ stage = "writing" =>
       /\ w.limit <= w.cap
       /\ w.sink => Len(w.buf) <= Max({w.threshold, 16})
       /\ ~w.err => w.sent \o w.buf = base.held \o text
       /\ w.err => IsPrefix(w.sent, text)
       /\ Offset(w) = base.offset + Len(text)
  /\ stage = "written" =>
       /\ ~w.err => doc = text
       /\ w.err => w.failure.at > 0 /\ doc # text
       /\ MeasuredAfter(job.pieces, base.offset) = Len(text)
  /\ stage = "unwound" => doc = base.held

-----------------------------------------------------------------------------
(* What is written reads back.                                             *)

AsValue == FromSlice(doc)

\* A document of the declared type reads back as the value, over a fresh one
\* and under the policy that requires what was not left out; as a Value it is
\* the tree of what was written; and it is valid, whether its arrays are
\* aligned or not.
WrittenReadsBack ==
  stage = "written" /\ ~w.err =>
    LET o == [unknown |-> TRUE, missing |-> ~job.o.skipNull] IN
    /\ \A q \in {ReadFresh(o, job.type, doc)} : q.code = "none" /\ q.val = job.node
    /\ AsValue.code = "none" /\ AsValue.val = Sparse(job.o, job.type, job.node)
    /\ Validate(NewReader(Standard, doc)).pos = Len(doc)

-----------------------------------------------------------------------------
(* The walks over a document that is handed in.                            *)

J == INSTANCE JsonParser WITH MaxNesting <- MaxDepth + 2, HexDigits <- 2,
       MaxDecade <- 9, MinDecade <- -4, MinFixed <- -2, MaxFixed <- 3

Fresh    == stage = "reading" /\ calls \in {0, MaxCalls} /\ r = NewReader(r.o, doc)
Compact  == [pretty |-> FALSE, newLinesInArrays |-> FALSE]
AsJson   == Transcode(Compact, doc)
Checked  == Then(Validate(NewReader(Standard, doc)), Finish)
SteppedOver == Then(Skip(NewReader(Standard, doc)), Finish)
Extends  == \E k \in DOMAIN doc : doc[k] \in {COMPLEX, MATRIX}   \* perhaps
RECURSIVE HasFloat(_)
HasFloat(node) == node.kind = "float" \/ \E k \in DOMAIN node.sub : HasFloat(node.sub[k][2])

\* No object of the document has a key twice: JSON's text keeps them all.
Single(tree, text) == tree.code = "none" /\ text.code = "none"
          /\ L!WriteValue(Compact, L!EmptyWriter, tree.val).buf = text.val.buf

\* What the readers refuse of what is valid: values JSON has no form for.
Formless == {"UnsupportedFeature", "InvalidMatrixLayout"}

\* Four walks that say what a document holds agree on where it ends and on
\* what is wrong with it: validation, stepping over it, a Value and JSON.
\* Stepping over looks at no text; only a Value refuses a number it cannot
\* hold.  And a Value is what its JSON text reads as.
WalksAgree ==
  Fresh =>
    \A tree \in {AsValue}, text \in {AsJson}, valid \in {Checked.code} :
      /\ SteppedOver.code = valid \/ valid = "InvalidUtf8"
      /\ tree.code = text.code \/ tree.code = "NumberOutOfRange"
      /\ text.code = valid \/ text.code \in Formless
      /\ tree.code = "none" =>
           \A p \in {J!FromStr(text.val.buf, FALSE)} :
             /\ Single(tree, text) /\ ~HasFloat(tree.val) => p.code = "none"
             /\ p.code = "none" => p.val = tree.val

\* A token that is a number in the only way an index is written.
Plainly(t) == With(ParseIntText(TRUE, Chars(t)), LAMBDA n : n # <<>> => Decimal(n[1]) = Chars(t))

\* A pointer into the bytes finds what the same pointer finds in the tree, and
\* nothing where the tree has nothing.  No pointer goes into an extension, and
\* of keys that are there twice the bytes have the first.
SeekFindsThePointed ==
  Fresh /\ ~Extends =>
    \A tree \in {AsValue} : Single(tree, AsJson) =>
      \A p \in Range(Reads.pointers) :
        (\A i \in DOMAIN p.tokens : Plainly(p.tokens[i])) =>
          \A q \in {FromSliceAt(doc, p)}, found \in {ValuePointer(tree.val, p)} :
            IF q.code = "none" THEN found = <<q.val>> ELSE found = Missing

\* A declared type takes a document exactly where its tree has the shape that
\* was declared, and reads the tree's own value: whatever form the document
\* has it in, and however late its tag is.  What it takes is valid, where no
\* unknown member is stepped over.  The tree tells neither integer keys from
\* text, nor an array of bytes from other arrays of what fits in one, nor what
\* an extension is: at the top, bytes are read wherever the document is a
\* well-formed array of one-byte integers, signed or not, aligned or not.
RECURSIVE Excuses(_)
Excuses(t) ==
  {"UnsupportedKeyType"} \cup (IF t.k = "bytes" THEN {"ExpectedArray", "ExpectedBytes"} ELSE {})
    \cup UNION {Excuses(t.sub[k]) : k \in DOMAIN t.sub}
IsByteArray ==
  \E h \in {TypedArray + 8 * c : c \in {Signed, Unsigned}} :
    IsPrefix(<<h>>, doc) \/ IsPrefix(<<ALIGNED_ARRAY, h>>, doc)
DeclaredAgrees ==
  Fresh =>
    \A tree \in {AsValue} : \A single \in {Single(tree, AsJson)} :
      \A t \in Range(Reads.types) : \A unknown \in BOOLEAN :
        LET o == [unknown |-> unknown, missing |-> TRUE] IN
        \A q \in {ReadFresh(o, t, doc)} :
          /\ q.code = "none" /\ unknown => Checked.code = "none"
          /\ t.k = "bytes" => (q.code = "none" <=> IsByteArray /\ tree.code = "none")
          /\ single => \A fit \in {Fit(o, t, tree.val)} :
               IF q.code = "none" THEN fit = <<q.val>>
               ELSE fit = <<>> \/ Extends \/ q.code \in Excuses(t)

\* Reading over a value that is there is reading a fresh one, where every
\* member has to be in the document: nothing of the old elements, entries,
\* members or payload shows through, and none of it changes what is refused.
ReadsOver ==
  Fresh =>
    \A s \in {Reads} : \A old \in Range(s.olds) : \A t \in {s.types[old.type]} :
      LET o == [unknown |-> r.o.unknown, missing |-> TRUE] IN
      \A fresh \in {Default(t)} :
        \A q \in {[was \in {fresh, old.node} |-> ReadOver(o, t, doc, was)]} :
          /\ q[old.node].code = q[fresh].code
          /\ q[fresh].code = "none" => q[old.node].val = q[fresh].val

\* A read that fails and is wound back leaves the reader as it was: no level,
\* no run of members put off and no installed header stays behind for the next
\* read to meet.  One that succeeds leaves no level and no run either.
FailureLeavesNothing ==
  [][calls' = calls + 1 =>
       IF last' = "none" THEN r'.depth = r.depth /\ r'.runs = r.runs
       ELSE r' = r \/ (r.pos = r.installed[1] /\ r' = [r EXCEPT !.implied = r.installed[2]])]_dvars
=============================================================================
