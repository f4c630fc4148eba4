# TLA+ models of structio

`structio` (the repository's `src/src`) reads and writes JSON and BEVE, a
binary format, without an intermediate tree. It is single-threaded; what makes
it hard is not threads but *resumption*: bytes arrive in pieces cut anywhere,
reads fail and are retried, buffers move under remembered offsets, a sink
breaks in the middle of a document, and every one of these may happen between
any two calls. A good deal of it rests on `unsafe` blocks whose comments argue
from an invariant. Those invariants are what is modelled here, checked with
TLC, and for the streaming core, the JSON splitter and the JSON writer proved with
TLAPS.

All source paths below are relative to `src/src/` of the repository.

## 1. The system

| part | state it keeps | operations | modelled |
|---|---|---|---|
| byte window, `stream.rs` | buffer, framer, bytes dropped, end flag, failed flag, initialized mark | `extend`, `set_eof`, `fill`, `try_next`, `buffered`, `offset`, `into_unread` | `StreamWindow` |
| JSON splitter, `json/stream/split.rs` | cursor, probe, mode, delimiter state, comment state, the scan inside a value | `next`, `rebase`, `position` | `JsonSplitter`; its reference in `JsonReader` |
| JSON `Feed`, `json/stream/feed.rs` | a window | `push`, `end`, `next_value` | `JsonReader`, `JsonFeed` |
| JSON `Documents`, `json/stream/read.rs` | a window, a reader, a chunk size | `next_value` (a loop of framing and reading), `into_parts` | `Documents`, `JsonDocuments` |
| `OrderedMap`, `map.rs` | entries in order, an optional hash table | lookups, insert, entry API, remove, retain, sort, clear | `OrderedMap`; abstract `OrderedMapSpec` |
| JSON writer, `json/writer.rs` | buffer, fast-path limit, depth, sink and its first error | append, strings, members, elements, containers, `finish`, `append_in_place` | `JsonWriter`; its layout in `JsonLayout` |
| JSON stream glue, `json/stream/window.rs` | none | parse a span | no |
| JSON parser, `json/parser.rs`, `json/impls.rs` | position, depth, late-tag runs | one pass over a slice, read as a declared type, wind back | `JsonParser`, `JsonTyped` |
| prettify, minify, `Raw`, `json/{prettify,minify,raw}.rs` | position, depth, last white space | rewrite text, keep a span | `JsonRewrite`, `JsonTexts` |
| numbers, `num/` | none | decimal to binary and back, on 64 and 128 bits with generated tables | the scan and the layout of digits, in `JsonParser` |
| `Value`, `value.rs` | none of its own | read, write, pointer | `JsonParser`, `JsonLayout`, `BeveReader`, `BevePointer` |
| BEVE splitter, `beve/stream/split.rs` | mode, cursor, probe, stack of counts, bytes to skip, the open value, the open array | `next`, `rebase`, `position` | `BeveSplitter`; reference `BeveFraming` |
| BEVE `Feed`, `beve/stream/feed.rs` | a window | `push`, `end`, `next_value` | `BeveFeed` |
| BEVE `Documents`, `beve/stream/read.rs` | a window, a reader, a chunk size | the loop JSON's has | the loop alone, in `Documents` |
| BEVE array streaming, `beve/stream/array.rs` | the destination's length | read a typed array into a `Vec` | `ArrayPayload`, `ArrayInto` |
| BEVE header, `beve/header.rs` | none | header bits, compressed sizes | `BevePreamble`, and encoding in `BeveWriter` |
| BEVE reader, `beve/reader.rs` | position, depth, late-tag runs | skip, validate, seek, read as a declared type, wind back | `BeveSkip`, `BeveReader`, `BevePointer`, `BeveTyped` |
| BEVE writer, `beve/writer.rs` | buffer, base offset, sink and its first error | headers, sizes, payloads, padding, `finish` | `BeveWriter`, `BeveDocuments` |
| transcode, `transcode.rs` | a reader and a writer | a BEVE document as JSON, no tree between | `BeveTranscode` |
| declared types, `beve/impls.rs`, `ext/`, `macros.rs` | the value read over | read and write structs, enums, maps, sequences, `Complex`, `Matrix` | in `Values`; by format in `JsonTyped`, and in `BeveTyped` and `BeveWriter` |
| `KeyMap`, `keymap.rs` | a hash scheme, chosen at compile time | `build`, `lookup`, `lookup_sized` | `KeyMap` |
| `structio-derive` | none at run time | generates readers and writers | no |

**How they interact.** `Documents` and `Feed` own a `Window`; the window owns
the bytes and a `Framer`. `Documents` calls `try_next`, and while the answer is
`Need` calls `fill`, which calls the user's `io::Read`; `Feed` is handed its
bytes by `push`. The window drops consumed bytes only at the top of `try_next`
(no value is borrowed then) and tells the framer to `rebase` its offsets. The
framer names a span; the ordinary parser runs over it, and a parse error
changes nothing in the window. `OrderedMap` holds the members of `Value`
objects. The writers are called by generated code and call the user's
`io::Write`. A document is read by a reader over a slice, which generated code,
`Value`, `Raw` and `transcode` drive: they share its walk but each has its own
idea of what to do with a value, and nothing but care keeps these in agreement.

**What is hard, and the property that says it is right.**

- *Window*: offsets survive compaction and reallocation, the unchecked
  `set_len` exposes only initialized bytes, a failure is reported once and for
  good, a failed read changes nothing. `WindowOfStream`, `UnreadIsTheRest`,
  `ExposesOnlyInitialized`, `FailureReportedOnce`, `FailureIsTerminal`,
  `AnswersInOrder`, `ReadsDoNotDisturb`.
- *Pull loop*: memory stays within the documented bound whatever the read
  sizes, and no call waits for bytes that cannot come. `HeldWithinLimit`,
  `FootprintBounded`, `CallsReturn`, `StreamEnds`.
- *Splitter*: the values found and the failure reported do not depend on where
  the chunks were cut, and nothing that is complete is held back.
  `ChunkingIsInvisible`, `LimitIsOnOneValue`.
- *BEVE splitter*: the walk keeps its place in a value of any nesting on a stack
  of counts while bytes arrive one by one; it must refuse what the whole-slice
  reader refuses and for the same reason, find the elements of every kind of
  array, and never ask for more bytes than the value has.
  `ChunkingIsInvisible`, `ArrayIsItsElements`, `BeveImplementsWindow`.
- *BEVE array streaming*: the count comes ahead of the bytes that should back
  it; the vector must not grow past what arrived, its unchecked `set_len` must
  not expose what was never written, and a read that stops anywhere says what a
  slice of the same bytes says. `HeldIsBacked`, `ReadsWhatASliceHolds`.
- *OrderedMap*: the table stays in step with the entries, every probe ends,
  and a map with a table cannot be told from one that scans.
  `TableDescribesEntries`, `ProbesAreRight`, `ImplementsMap`.
- *JSON writer*: streaming is invisible, stores stay in the allocation, memory
  is bounded even behind a broken sink, `finish` tells the truth, and an unwind
  gives the caller's buffer back. `StreamedIsText`, `BufferKeepsItsBounds`,
  `FinishTellsTheTruth`.
- *JSON documents*: the crate has four ways over a document, each with its own
  walk. A rewrite must not join, split or drop a token, whatever the document;
  the layouts must agree; and one that stops half way must be one that every
  other refuses too. A declared read is over an old value, puts members off
  behind a late tag, and may fail anywhere with the program reading on.
  `NothingLost`, `LayoutSettles`, `RefusedTogether`, `DeclaredIsTheTree`.
- *BEVE documents*: a size is written ahead of what it counts, and padding by an
  offset that a sink has partly taken away. The same bytes are walked by
  skipping, by validation, as a tree, as JSON, by pointer and as declared types.
  A declared read is over an old value and may fail inside any container or
  after any late tag, and the program may wind back and read on.
  `StreamedIsDocument`, `WrittenReadsBack`, `WalksAgree`,
  `SeekFindsThePointed`, `DeclaredAgrees`, `ReadsOver`,
  `FailureLeavesNothing`.

The full list of hazards, each at its line with the properties that watch it,
is `hazards` in `PROJECT.json`; the line of the code behind every definition is
`map` there.

## 2. The modules

    StreamWindow <--- Documents                 the window, any framer; the pull loop
       ^    '-- WindowProofs --^
       |                       |
    JsonReader <--- JsonFeed <------.           the window with the JSON splitter,
       |   ^------- JsonDocuments <-+           pushed to, or pulling from a reader
       v                            |
    JsonSplitter                    |           the resumable search
                 JsonFramerProofs --'--> Induction

    BeveFramerProofs -+-> Induction, BevePreambleProofs
                      v
    BeveFraming ---> BeveFeed ---> BeveSplitter ---> BevePreamble
        |            StreamWindow  the resumable     headers and sizes, shared
        |            over it       walk              as in the code
        '----------> BeveSkip      the reader's skip, which is the reference

    BeveDocuments -+-> BeveWriter ---+             what is done with a document
                   +-> BeveTyped ----+
                   +-> BevePointer --+-> BeveReader -+-> BeveSkip
                   '-> BeveTranscode '               '-> Values

    JsonTexts -+-> JsonTyped ---.                  declared types, and the tree
               '-> JsonRewrite -+-> JsonParser ---> JsonLayout ---> Values -> KeyMap

    ArrayIntoProofs -+-> BevePreambleProofs --------.
                     v                              v
                 ArrayInto -+-------------------> BevePreamble
                            '-> ArrayPayload      the growth loop, lengths only

    JsonWriter <--- JsonWriterProofs ---> Induction

    OrderedMapSpec <-(implements)- OrderedMap <--- OrderedMapProofs ---> Induction

**StreamWindow.** The variables are the fields of `Window<F>` (`buf`,
`origin`, `eof`, `failed`, `inited`), the framer's `consumed()` as `cursor`,
and histories: `stream`, all bytes ever accepted; `alloc`, how far the present
allocation truly is initialized; `last`, the latest answer in stream offsets;
`reports`, the failures reported. `FramerOutcomes` is the contract of the
`Framer` trait: the cursor never moves back, a value begins on a byte that has
arrived, no `Need` at the end of input, `End` only there with nothing left.
Empty values are allowed, because a packed BEVE boolean is one. One action per
operation: `Extend`, `SetEof`, `TryNext` (which compacts, asks the framer,
applies the limit and on a failure drops the buffer), `TryNextDead`, and the
three ends of `fill`: `FillBytes`, `FillEof`, `FillError`. Growing a buffer may
stay in its allocation or move, nondeterministically (`Grow`).

**Documents.** The loop of `Documents::locate`, with a program counter: each
framing and each read is a step of its own, since the reader is foreign code
and may deliver any part, nothing, an interruption or an error. `Call` is the
caller's next `next_value`.

**JsonSplitter.** The `Splitter` as a record `sp`, and `NextItem` as
`Framer::next`. Bytes are the classes the code tells apart (`"1"` stands for any
byte of a bare scalar, `'` for the quotation mark). `Scan` is the byte loop,
`Turn` one round of the state loop, both recursive functions. The search of
string bodies eight bytes at a time finds the same bytes and is left out.

**JsonReader**, **JsonFeed**, **JsonDocuments.** `StreamWindow` instantiated
with the splitter's cursor for its `cursor`. `TryNextItem` is the window's step
with the splitter's answer, after `Rebase` if the window compacts. `Frame` is the
reference: what the values of a *whole* stream are, said without cursor, chunk or
resumption; the splitter is held to it.

**BevePreamble.** Headers and compressed sizes on the real byte values, and the
`Reader` methods the splitter itself calls on the bytes it has
(`read_compressed_size`, `typed_array_preamble`, `aligned_array_preamble`,
`read_complex_header`, ...), each giving where it stopped or what it refused.
`MaxUsize` stands for the largest `usize`: the code's `checked_add` and
`checked_mul` fail past it, which is an `UnexpectedEnd` there and here.

**BeveSplitter.** The `Splitter` as a record: the stack of counts, the bytes
still to skip, whether a head is due, the open value, the open array. `Head`'s
cases are one operator each (`Enter`, the extensions, the leaves); `ScanTurn` is
one round of `scan`, iterated by a recursive function. `NextItem` is
`Framer::next` with the elements of an array in Array mode: the ones that are
read behind an implied header carry it (`implied`, -1 for none).

**BeveFraming.** The reference is `Reader::skip_value` (`SkipValue` of
`BeveSkip`) applied to a *whole* stream, with no cursor kept and nothing
resumed. It is the reader's own code, not the splitter's, so the run compares
two independent pieces of the program. It is recursive, and stands with the
properties that need it above `BeveFeed`, so that `BeveFeed` can be proved about.

**BeveFeed.** `StreamWindow` with this splitter, as `JsonFeed` is with the other.
Each setup has an opening, the bytes every one of its streams begins with, so
that the deep formats are reached within few bytes.

**ArrayPayload.** The loop of `read_array_into` as lengths: the count the head
stated, the vector's length and capacity, and three histories (how much of the
allocation was ever written, what the reader delivered, the capacity the vector
came with). A call ends complete, failed with the vector cleared, or unwinding
with the vector as it is.

**ArrayInto.** That loop with its bytes. `HeadFrom` is `Source::array_head`,
reading by `read_exact`; the reader gives the bytes of `doc` and then what
`beyond` says: the end of input, an `io::Error`, a panic. One vector goes through
any number of calls, so that a capacity left by one meets the next.
`OfSlice` is the reference, made of the preambles the slice reader uses.

**OrderedMapSpec**, **OrderedMap.** The abstract map scans. The concrete one has
the table as a function from bucket number to `[index, hash]`; `Place`,
`Erase`, `ShiftDownAbove`, `Grown`, `Rebuilt` are the methods of `HashTable`,
and `PushNew`, `RemoveAtPos`, `Reindex` decide between them at the thresholds.
The entry API holds the map borrowed between its lookup and its change, so it
adds no interleaving. `RetainUnwinds` is in a specification of its own. `retain`
and `sort_keys` put the entries in the order `Ordered` says, the abstract map in
one described by what holds of it: which entries are there, and which comes
before which.

**JsonWriter.** The writer is a record and each method an operator that returns
the writer it leaves, so that the code's order of `room`, store and drain is
kept inside one step. `sound` records whether every unchecked store was inside
the allocation. `text` is the document an in-memory writer would hold. What the
generated code calls (`key`, `write_keyed`, `write_seq`, ...) is a sequence of
the actions of `Next`. `Unwind` is a caller's code panicking while the buffer of
`append_in_place` is inside a writer; `held` is what the caller had in it.
`IntoString` is the unchecked conversion, of what was written since `textFrom`. A
byte is one of `Letters`, of the punctuation, or of the two that make a character
past ASCII; `Cut` is where `drain` cuts, the last character kept.

**Induction.** What follows from one `FiniteSetTheorems` fact about well-founded
inclusion: least elements, induction over sets of numbers, and that a function
defined by recursion on them exists. The proofs about loops rest on it.

**Stepwise.** A result with a code, and `Then`, which is the code's `?`.

**Values.** What documents hold in either format: the tree of a `Value`, the
text of an integer, and the declared types. A declared type is a record: kind,
names with their aliases, the types inside, the members marked `#[required]`.
The kinds are integers, floats, booleans, strings, bytes, `()`, `Value`,
`Option`, `Vec`, tuples (of which `[T; N]` is one), maps with text or integer
keys, structs, enums tagged outside and inside, `Complex` and `Matrix`, and a
program's own read that tries one type after another (`Either`). What a value
holds is the tree it would write, so that a declared read compares with a
`Value`. `Fit` is the reference for declared reads: what a declared type may
hold of a *tree*, said without bytes and the same for both formats.

**JsonLayout**, **JsonParser.** A JSON document is a sequence of
byte classes. The parser is a record (bytes, position, depth, mode) and a method
the operator that returns the parser it leaves, with the failure and the byte
that is blamed for it. A number is its text; the scan of `num/atof.rs` decides
what is one, and `FromToken` and `WriteNumber` what a `Value` keeps of it and
writes: the limits of the integers and of the exponents are constants, so that
every side of them is within a few digits.

**KeyMap.** `Build` is the ladder: the first scheme that tells all the names of
a declaration apart, with the seed search (`SearchSeed`) for those that hash.
`Lookup` is given the rest of a document and finds the key's end where its
scheme needs one; `LookupSized` is given the key. Either gives a candidate,
which `Confirmed` compares with the name, as the generated code does. A key is
its bytes; a hash is of the bytes the scheme reads (`SearchPreimage`), on a word
of 12 bits. A type carries the map of its names (`declared`), as `Keys::MAP`
does. Two runs declare one type for every scheme there is (the assumption
`EverySchemeIsTried`) and read documents that name its variants, that almost
name them, and that end inside a key; the reference, `Fit`, compares names and
knows of no map. Whether the two lookups agree is thereby asked through what the
two formats read.

**JsonRewrite**, **JsonTexts.** `Minify`, `Prettify`, `RawRead`,
`RawWrite` and `FromStr` are the entry points. `JsonTexts` takes any document
and applies them one after another, each to the text the last one left. `Tokens`
is the reference: the tokens of a text said without a parser.

**JsonTyped.** `ReadType` is every read the parser's driving methods, the impls
and the declaration macros come to: over the old value, with the members in
front of a late tag put off to a run of the document, and the level and the runs
put back when an internally tagged enum fails. `WriteType` is the same of
writing. Integers are read as `num/atoi.rs` does, in one pass with the bound
checked at the end. `JsonTexts` reads a document as the types its setup pairs it
with before the first rewrite, under each read policy, fresh and over old values.

**BeveSkip**, **BeveReader**, **BeveTranscode**, **BevePointer.** The readers over one slice: `skip_value` and
`validate_value`; headers, keys, numbers and implied headers; a `Value`; the
same document straight to JSON; a JSON Pointer into the bytes and into the tree.
They use each other exactly where the code does: `BeveTranscode` takes from
`BeveReader`, besides the reader, only the helpers `transcode.rs` takes, and has a walk of its own.

**BeveTyped.** `ReadType` is every read the impls, the extensions and the
declaration macros drive: over the old value, with late tags deferred to runs of
the document. `&[u8]` is read from an array of one-byte integers of either sign
(`ByteElements`), each element as its two's complement.

**BeveWriter.** What a value writes is a sequence of pieces, one for each call
that asks the buffer for room; padding is fixed only once its offset is known.

**BeveDocuments.** A state machine over all of that: a document is either given
(an opening, then any chunks) or written, piece by piece, to a sink that may
fail or by a write that may unwind; then it is read, and a program tries reads
at one reader and winds it back when one fails.
`Fit` is the reference for declared reads. A tree does not tell an array of
bytes from another array of such numbers, so where `Fit` would give bytes a read
may also say that there are none (`Excuses`); a document that is an array of
one-byte integers, plain or aligned, has to be taken (`IsByteArray`).

Operators named `X_Slip` (`Compacts_Seldom`, `Erase_Tombstone`) are a definition with
one plausible mistake in it; no specification uses them. They are there to show
that a property notices the mistake (`mutants` in `PROJECT.json`).

## 3. The runs

| run | question | bounds | states |
|---|---|---|---|
| `window` | does the window keep its promises under any framer and any order of calls? | 4 bytes of stream, limit 2, reads of 2, two byte values | 29 thousand |
| `documents` | the pull loop: memory, retries, progress | 7 bytes, limit 1, reads of 2, one byte value | 2 thousand |
| `json_feed` | is chunking invisible, in each mode? | streams of 4 or 5 bytes over 3 to 5 byte classes, pushes of up to 2, nesting 2 | 197 thousand |
| `json_documents` | the same under a limit and clipped reads | streams of 4 to 6 bytes, limit 2, reads of up to 3 | 37 thousand |
| `beve_feed` | is chunking invisible, does the walk agree with the reader, is an array its elements? | 15 setups; streams of 4 to 7 bytes over 2 to 5 byte values, pushes of up to 2, nesting 2, `MaxUsize` 15, limit 5 | 223 thousand |
| `array_into` | is growth backed by bytes, and streaming a slice's reading? | vectors of `u8`, `u16`, `Complex<u8>`; documents of up to 15 bytes, `CHUNK` 3, capacities 0, 1 and 5, `MaxUsize` 15 | 72 thousand |
| `line_limit` | is the limit on one value in Lines mode? No | as above | until found |
| `ordered_map` | table against entries, map against the scanning map | 6 keys, two hash functions, `LINEAR_MAX` 2, 4 buckets, `MAX_INDEXED` 5 | 12 thousand |
| `map_unwind` | and when the predicate of `retain` unwinds? No | as above | until found |
| `json_writer` | streaming against memory, room against stores | sink buffers of 0 (which is 1) and 3, words of 2 bytes, documents of 5 bytes and the call that passes it, sinks failing at the first, second or no write; three writers in memory, one behind a prefix and one behind half a character, which may unwind | 561 thousand |
| `json_texts` | do the ways over a JSON document agree, and keep it? is a declared read the tree's, and does what it gave come back? | untyped: 11 setups of an opening and up to 4 or 5 bytes over 4 to 6 classes, under a policy or two; typed: 11 setups of an opening and up to 3 or 4 chunks, with up to 5 declared types and the old values they are read over, 3 read policies and 4 write policies; nesting 2, integers to 909, exponents to 9; 17 declarations, of up to 6 names, hashed up to 5 and searched up to 4 of them, 6 seeds | 144 thousand |
| `beve_documents` | is what is written the document, and do all reads of one agree? | 19 values, 10 writers (in memory, behind a prefix, sinks that fail), 4 policies; setups of an opening and 2 to 4 chunks; nesting 4, two reads in a session; the same 17 declarations | 33 thousand |

`line_limit` and `map_unwind` have a configuration of their own
(`MCLineLimit.cfg`, `MCMapUnwind.cfg`) for the modules `MCJsonDocuments` and
`MCOrderedMap`. `window` and `documents` need nothing but numbers for their
constants and are run on `StreamWindow` and `Documents` themselves.

**Why the bounds are enough.** The window's decisions compare its few offsets
with each other, the limit and the chunk: with four bytes of stream and limit 2
every comparison has both outcomes, a value can be at, over or under the limit,
and a compaction can leave something or nothing. `documents` needs a stream
longer than `2 * Limit + 1 + Chunk`, or `FootprintBounded` would hold for want
of bytes: 7 is. The splitter carries from one byte to the next only a bounded
state (string, escaped, comment, depth, delimiter), so every pair of
state and byte, with a chunk boundary before and after it, occurs within 4 to 6
bytes; the alphabets are chosen per reader so that the streams can be that long.
Nesting 2 separates depth 0, a depth in between and the maximum. The BEVE walk carries a stack, a byte count and a phase; every header the code
tells apart is in some setup's alphabet, next to the sizes (0, 1 and more, in
one byte and cut in two) that leave it empty, one element long, and unfinished,
and the values one inside the other are as many as the depth limit and one more.
With `MaxUsize` 15 a count times a width passes it in two bytes. A chunk of 3
bytes is three elements of `u8`, one of `u16`, and of the complex type one, so
the clamp to one element and a chunk that a width does not divide both occur;
the longest arrays take several chunks and more than one doubling. Only a fixed
few documents meet a vector used again: what a call leaves behind is a length
and a capacity, and the first calls leave each of those there are. The map's
constants are scaled so that six keys cross each threshold in both directions;
the hash functions collide wholly, collide in the bucket, and wrap round the
end of the table. The writer's buffers are smaller than most appends, so nearly
every append drains, and the documents hold a comma, a bracket, an escape and a
character of two bytes in each order. An empty `raw` is among the texts: it is
the one append that can drain between a comma and the bracket that replaces it.

A JSON document of an opening and five bytes holds each container empty, with one
member and with two, at and past the nesting limit; the openings put the string,
the escape, the surrogate, the comment and the number within reach, and four
entry points after one another are never different from one of them applied
twice, which the runs show by reaching no new text. A chunk of a typed setup is a
key, a member or a whole piece of syntax: four of them hold an object with its
tag first, in the middle, last, twice and missing, one such object in another
whose own tag is late too, and an element that fails under one type, is read
again as another and is followed by a next. Integers are bounded at 909 and 190
and the widths at 8 bits and unbounded, so that a number can be past the type's
range, past `i64`, or past both. In `beve_documents` a chunk
is a whole header, size or key, so that two of them make a member, a tag or an
element; each setup pairs an opening with the declared types that can meet it,
one of each kind, and with an old value the read goes over. Two reads in a
session are one that fails and one after it. The 17 declarations of the schemes'
setups are the smallest found that each reach one rung of the ladder and no
earlier one; the first seed is 0, which the search passes over, and the next do
not separate every set of names, so that later ones are taken and one rung is
left for another. `MaxHashedKeys` and `MaxSearchedKeys` (255 and 72 in the code)
are 5 and 4, so that both ends in the linear scan are met.

**Deadlock** is checked except in `json_writer`, where a writer is consumed by
`finish` or `into_vec`, and in `json_texts` and `beve_documents`, where a
document is done with.

**The two runs that must fail** are disagreements between a comment and the code:

- `line_limit`: `stream.rs:231` says that the limit is on one value's extent
  however its bytes arrived. A framer that starves is charged for the whole live
  window, and in Lines mode that is the unfinished line with the white space
  around its value. `11` and a space, before the newline arrives, is refused at
  a limit of 2; the same line arriving with its newline is accepted.
- `map_unwind`: `map.rs:259` says that a table that exists describes every entry
  and that there is no state in between. If the predicate given to `retain`
  unwinds after refusing an entry, `Vec::retain_mut` has removed that entry and
  `reindex` is never reached; a map used after the unwind was caught has a table
  of the old positions.

**Things the reference had to say explicitly**, since they are what the code
does: a block comment between values that never closes has its failure placed at
a byte that depends on the chunking (`Whole.loose`); bytes pushed after `end()`
are framed as if each push were the last, so the properties about the whole
stream speak of feeds that were not pushed to after their end (`late`). And a
BEVE matrix is charged its level of nesting by the splitter on its header byte,
by `skip_extension` after its layout byte (`BareMatrix`): at the depth limit,
with the stream ending between the two, one reports the depth and the other the
end. Both refuse, and no comment promises which.

In `json_texts`: `Raw`, minify and prettify take a run of scalar bytes for a
number without holding it to the grammar or to a range, so agreement is asserted
for documents whose numbers are numbers (`HasIllNumber`). And a tree does not have
all there is to a document: the earlier of two values of a key, which a declared
read checks too; escapes in a name, which a declared key is compared without; and
that a zero under a sign was an integer. `DeclaredIsTheTree` compares the two
where the tree has everything (`TreeHasAll`), and asks the rest of every document.

In `beve_documents`: a `Value` alone refuses an integer past 64 bits
(`NumberOutOfRange`); some valid documents have no form in JSON, and neither a
tree nor JSON takes them (`Formless`); JSON's text keeps a key that is there
twice and a tree one of them, so what compares the two speaks of documents
without one (`Single`). A key repeated on both sides of a late tag keeps its
earlier value, as `docs/enums.md:247` says. And a member marked `#[required]`
that is null and written under `SKIP_NULL` is left out, so that the document
reads back only under a policy that does not require it. That is so of both
formats, and `docs/schemas.md:198` says it.

## 4. Fairness

Only `Documents` has liveness properties. `DFairness` assumes:

- `WF(Call)`: the caller keeps asking. `StreamEnds` is about such a caller;
  `CallsReturn` does not need it.
- `WF(DTry)`: the loop in `locate` is straight-line code and runs on.
- `SF(DRead)`: a reader asked again and again does not *only* fail or get
  interrupted. Without it an endless `Interrupted` makes the loop spin, which is
  the documented behaviour of every `io::Read` loop.
- `SF(DTryOn)`: a framer does not give out empty values at an unmoved cursor for
  ever. The JSON splitter never gives one; the BEVE splitter gives at most the
  eight bits of a byte (`beve/stream/split.rs:632`).

## 5. What is proved

Every theorem holds for all values of its module's constants that the assumption
named with it allows, and TLC evaluates each of these assumptions on a run.

`WindowProofs` is about the window and then about the pull reader. For every
`Byte`, `Limit`, `Chunk`, `MaxStream` and set of
error codes allowed by `ConstantsAssumption` (`Limit` and `MaxStream` natural,
`Chunk` at least 1; `read_size` clamps it to that). `Inv` is the inductive invariant: `TypeOK`, the window as
a tail of the stream (`WindowOfStream`), the initialized mark against the
allocation (`ExposesOnlyInitialized`), one report exactly if failed
(`FailureReportedOnce`). Together they are inductive, none is alone: a
compaction keeps the tail only if the cursor is inside the buffer, `fill` can
lengthen the buffer only if what it exposes is initialized, and that the report
lies inside the stream needs the tail. The lemmas about sequences
(`TailGrows`, `TailShrinks`, `CompactionKeepsPlace`) say what appending and
dropping do to "is a tail of"; `FramerContract` gives the bounds of any
outcome; then there is one lemma per action, `NextStep` puts them together, and
`Invariance` follows. From it: `TypeCorrect`, `WindowIsLossless`,
`UnreadIsLossless`, `MemorySafe`, `ReportedOnce`, `FailureTerminal`, `InOrder`.
`UnreadIsLossless` includes that `Buffered` is the number of bytes handed back, also
after a failure, when the cursor is past the end of the dropped buffer.

In the second part `DInv` adds to `Inv` what holds in each phase of the loop
(`LoopInv`): it reads only after the window starved, the unread bytes are then
within the limit and after the read at most one past it, and outside of "try"
the buffer is at most `2 * Limit + 1`, which is what `compact` leaves and the
bound on the footprint needs. `PullReaderImplementsWindow`
shows that every step of the loop is a step of `StreamWindow` or a stutter, so
the window's theorems carry over. Then `PullWithinLimit`, `PullFootprint`,
`ReadsAreHarmless`.

`BevePreambleProofs` has no theorem of its own: it says of the helpers that read
ahead of a payload what they return, whatever the bytes, from `LimitsAssumption`,
and the proofs of every walk over BEVE rest on it.

`ArrayIntoProofs`. The growth first, for every chunk size, count and starting
capacity. `GrowthBacked` is `HeldIsBacked` of `ArrayPayload`: the exposed elements
were written and lie in the allocation, and the allocation is what the caller
brought or at most twice what arrived and the chunk being read. For a vector that
came with a capacity the chunk is inside the doubling; a fresh vector is held to
twice what arrived plus one chunk. That sharper bound is why the invariant `PInv`
needs `GrowsFull`: a fresh vector's room is always a number of whole chunks or the
count, so it is exactly full when it grows, and doubling it doubles what arrived.
The lemmas `WholeChunks`, `ChunkAhead`, `WantedEnough` and `GrownWhole` are the
arithmetic.

Then the calls with their bytes, from `ArrayAssumption`: chunk sizes and
capacities are numbers, an element has a width, and a document is bytes, no more
than an address can name, since it is compared with a slice of them. `Alike` and
`Agreed` say that what is read from the caller's reader is what is read from a
slice, or that the reader gave out where the slice ends. Each piece of the head
reads alike (`ByteAlike`, `SizeAlike`, `PaddingAgrees`, `PairsAgree`,
`AlignedAgrees`), `ThenAgrees` puts one behind the other, and `HeadAgrees` is the
whole of `array_head` against the preambles of the slice reader, although the one
compares the element type last and the other is asked for it afterwards
(`StoresAgree`). `AInv` says that behind the head the vector holds the first
elements of the slice's array and the source stands where they end (`Behind`); a
chunk continues them (`ElementsJoin`), and a chunk that does not arrive means that
the slice is short as well, whatever was read before. `ArrayGrows` is the
refinement (`ArrayInto` implements `ArrayPayload`), so that `ArrayBacked` is
`HeldIsBacked` of the calls themselves, and `ArrayReadsTheSlice` is
`ReadsWhatASliceHolds`, the two invariants of the run.

`JsonFramerProofs`, from `MaxDepthAssumption` (some nesting is allowed) and
`ReaderAssumption` (a mode, a comment setting and bounds that are numbers). The
window's theorems suppose a framer that keeps its contract; these show that the
JSON splitter is one, for every stream, chunking, mode and nesting limit.
`Ready` says that the splitter can be asked about a buffer: what it remembers
lies in it, and a value it is inside of begins on a byte that is there. It is
needed because a splitter that remembers an offset past the end would answer with
one. `Turned` is what one turn of the loop may come to from there: an answer of
the contract (`Answered`), or another turn with less left to do (`Left`: states
to pass, or in Lines mode bytes), so that the loop ends on an answer
(`NextFacts`). There is one lemma for each state; they rest on the two searches
over bytes, `SkipFacts` and `AdvanceFacts`, which are inductions over the buffer.
`RebaseFacts` and `GrowthFacts` keep `Ready` through a compaction and a push.
Then `RInv` is inductive for a feed and for a pull reader (`FeedStaysReady`,
`DocumentsStayReady`), every step of a feed is one of the window (`FeedIsWindow`,
which is `ImplementsWindow`), and every step of a pull reader one of `Documents`
(`PullIsDocuments`, which is `ImplementsPullReader`). So what is proved of the
window and of the loop holds of the two JSON readers.

The same module proves which values they find: `FeedChunkingIsInvisible` and
`DocumentsChunkingIsInvisible` say that, in every mode and however the bytes come,
the values given out are those of the whole stream, a failure is the whole
stream's failure in its place, and no complete value is held back. `Frame`, the
reference, is read off the whole stream by recursive functions from any offset
(`Walk` inside a container, `Values`, `Elements`, `Lines`). TLA+ only says that
such a function is some solution of its equation if there is one, so the proof
begins by finding one (`Induction` has the two forms, upwards and downwards over
offsets), and works with the equations from there (`GapRecursion`, `WalkRecursion`
and their like).

A buffer shows a part of the stream, and the splitter cannot know how the stream
goes on. The invariant (`CInv`) says so: for *every* stream that this one may still
turn out to be (`MayBe`), the values given out, followed by those the splitter
still stands to find, are the values of the whole (`Tracks`). What it stands to
find depends on where it is (`Standing`): between values it has come through a gap
(`Between`, with `Skipped` for a comment it is inside of); inside a value its
depth, string and comment flags are those of the reference's walk at that byte
(`Inside`, with `Traced`); at a line, the part it has already searched has no end
(`OnLine`). It cannot be said of the stream so far alone: a value that a chunk cuts
off is not a value of that stream. Each state has a lemma that its answer follows
this (`Followed`): it gives out the next value still to find, or fails exactly
where nothing else is left, or waits only for a value that nothing so far has
ended. An escape is the one place where the two differ in kind, the code keeping
a flag and the reference counting the backslashes before a quote; `InString`
holds them together. `Followed` is carried over the turns of a call, over the
compaction before it (`Rebase`) and over what arrives between calls.

`FeedLimitIsOnOneValue` and `DocumentsLimitIsOnOneValue` rest on the same
invariant: a window that is refused for its size is the one value left to find, by
its first byte, and that value is longer than the limit or the stream stops inside
it. They leave out Lines, where it is false (`line_limit`), and a limit of 0, under
which a lone `/` that may yet begin a comment is refused although it is no value.

`BeveFramerProofs`, from `LimitsAssumption` and `FeedAssumption` (modes, bytes
that are bytes, bounds that are numbers). The same for the BEVE splitter, which
keeps its place in a value on a stack of counts. Here too `Ready` says that the
splitter can be asked about a buffer: the offsets of its walk and of its array
lie in it, the value it is inside of begins on a byte that is there and, in an
array, is one of those still owed, and a bit is being read only of a byte that
is there. Without that a splitter could count an element below zero, or give out
bits of a byte past the end. `Rank` orders its states by how many a turn of the
loop may still pass before it answers: three turns are enough (`NextFacts`).

The proof goes from the inside out. `Took`, `Formed` and `Ahead` say of a helper
that reads ahead that it failed or stopped in the buffer, at or behind where it
was to begin, and what it found there can be worked with: a size (`SizeFacts`),
the heads of typed, aligned and complex arrays (`TypedHeadFacts`,
`AlignedFacts`, `ComplexFacts`, all in `BevePreambleProofs`), every kind of
preamble (`PreambleFacts`). In the
walk the innermost frame is owed something whenever a duty is looked for
(`Owed`, by `OpenFacts`), so `Taken` never counts below zero; and a step that
goes on has moved forward (`Onward`, `DutyFacts`), so the walk ends within the
buffer (`AdvanceFacts`, an induction over its steps). There is then one lemma
for each state and for each kind of element, `RebaseFacts` and `GrowthFacts`
keep `Ready` through a compaction and a push, and `BInv` is inductive:
`BeveStaysReady`, `BeveFeedIsWindow` (which is `BeveImplementsWindow`), and
`BeveFeedIsSpec`, by which `StreamWindow`'s theorems are about a BEVE feed. That
the values are those the reader steps over is model-checked.

`JsonWriterProofs`, from `SizesAssumption`, `TextsAssumption` (what is written is
whole characters and no token is longer than the bytes reserved for it),
`LongestAssumption` and `OptionsAssumption`. `Good` relates a writer to the text
`t` that a writer in memory would hold: no store left the allocation and the
fast path's limit is inside it (`Fits`); what the sink has is where `t` begins and
what is held is where it ends (`SentIsFront`, `BufIsBack`), with bytes missing in
between only after the sink failed (`Lengths`); the last byte of `t` is held; and
the boundary is between two characters (`Divided`). None of these can be left out:
the closing bracket of a container replaces the last byte, which is in the buffer
only because a drain keeps it, and the boundary stays between characters only
because a drain moves it to the start of one. Each operator has a lemma
from a writer that stands at `t` to one that stands at what it appended, up to
`room`, the escaping loop of `write_str` and the two passes of a container's end;
each action one that it keeps the document (`Doc`). `WriterStands` is the
invariant; from it `WriterBounds`, `WriterStreams` and `WriterReports`, which are
the three properties of the run for every buffer capacity, word size, set of
texts and failing sink.

`OrderedMapProofs`, from `SizesAssumption` (at least four buckets, `LINEAR_MAX`
under their load limit and under `MAX_INDEXED`) and `KeyAssumption` (keys are
numbers, so that there is an order to sort them in), for every hash function and
every sequence of calls. `MapInv` says that the keys are distinct, that the table
is there exactly when the sizes ask for it, and that it `Describes` the entries: it
is within its load limit, stores the bucket of each entry and nothing else
(`Content` is `Wanted`), no position twice (`Single`), and is in robin hood order
(`InOrder`): going round, an entry is at most one bucket further from its home
than the one before it, and is at home if the one before is empty. The order is
stated of neighbours only, because that is what `place` and `erase` disturb;
`ChainFacts` draws from it what a probe relies on, that every bucket between an
entry's home and the entry holds one at least as far from its own home.

The proof goes by the operators. Distances round the table are `Round` and `Away`,
whose few laws are all the proof knows of remainders. `PlaceStepFacts` is one
bucket of `place`: what it carries is missing from the table and nothing else is,
and the bucket behind it holds an entry no nearer its home than one less than the
carried one has travelled; the free bucket is reached within one round
(`PlaceFacts`), and a whole list is placed one by one (`PlacedFacts`), hence
`RebuiltFacts` and `GrownFacts`. `EraseShape` says which run of buckets `erase`
moves one back, `ErasedInOrder` that the order stands, `EraseFacts` that one entry
is gone. `RepairFacts` is a removal: the entry is erased and the positions above
it lowered. A probe ends where it should (`ProbeEnds`) and `find` is right
(`FindFacts`), as is `bucket_of` (`BucketOfFacts`). `KeptFacts` and `SortedFacts`
are about `retain` and `sort_keys`. `MapInvNext` puts the
operations together; `MapIsDescribed` and `MapProbesAreRight` are the two
invariants of the run, and `MapIsScanned` is the refinement: every call is one of
the map that scans, with the same answer. `hash_key` enters as any function of the
key to a number, so nothing rests on its being a good one. `RetainUnwinds` is not
a step of this specification: with it the theorems are false, which
`map_unwind` shows.

Only model-checked, and why:

- The liveness of `Documents`: fairness and `ENABLED` are outside TLAPS.
- That a BEVE feed's values are those of the whole stream (`ChunkingIsInvisible` of
  `BeveFraming`, `ArrayIsItsElements`): the reference is the reader's own recursive
  operator, which the prover does not accept. The JSON splitter's are proved.
- `LimitIsOnOneValue` for Lines and for a limit of 0, where it does not hold; no run
  but `line_limit` asks it there.
- All that is said of whole documents (`JsonTexts`, `BeveDocuments`): the walks
  they are made of or held to are recursive operators as well.

## 6. Not modelled

- Error texts and key names in errors; the offset at which a BEVE read fails
  (for JSON it is modelled).
- The value of a float: its digits, or its bytes, stand for it. Correct rounding
  on 64 and 128 bits with tables of powers is out of TLC's reach at its width,
  and a narrowed version would be another algorithm.
- BEVE sizes of 8 bytes, integers of 128 bits, and matrix extents past 16 bits:
  TLC's own integers have 32.
- Borrowing from the input (`&str`, `Cow`, typed slices in place, pointers into
  the bytes): what is borrowed is what is copied elsewhere.
- Declared floats and integers of 128 bits in JSON, and `Complex` and `Matrix`
  there; renaming rules and adapters; `structio-derive`.
- The mixing functions of `KeyMap` at their width. What matters of them is that
  a seed separates some keys and not others, which short ones do as well.
- BEVE `Documents` as a composition: its loop is the one in `Documents`, its
  splitter the one in `BeveFeed`; the two are not run together.
- Changing `max_value`, `read_size` or the options of a reader in mid stream.
- A user's `Read` that panics inside `fill`.
- The hash function of the map, its iterators, capacity and bulk construction.
- The JSON writers of numbers and other single types (to the buffer they are
  `append` or `append_fixed`), and sequences of unknown length.

## 7. Plan

In order, the next modules and what they are for:

1. `OrderedMap` bulk construction and an unwinding `sort`.
2. BEVE `Documents` as a composition of `Documents` and `BeveSplitter`.

Theorems planned: `ChunkingIsInvisible` of a BEVE feed, once `BeveSkip` is restated
as recursive functions over offsets and depths, as the JSON reference is; the
window's theorems stated of the feeds themselves.
