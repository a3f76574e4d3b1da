---------------------------- MODULE CommandTail ----------------------------
(***************************************************************************)
(* The bounded output tail of a command and a reader that pages through it *)
(* (commandTail and poll of internal/harness/command_sessions.go).         *)
(*                                                                         *)
(* Text is a range of byte positions; starts is the set of positions where *)
(* a UTF-8 character begins, so a character of two bytes is one start and  *)
(* one position that is none.  A write hands whole characters to append    *)
(* (an incomplete one, and a possible prefix of a secret, wait in pending  *)
(* and secretPending).  Chunks of the two streams share one numbering.     *)
(***************************************************************************)
EXTENDS Naturals, Sequences, FiniteSets, FiniteSetsExt

CONSTANTS
  Limit,      \* commandTail.limit
  MaxChunks,  \* 512
  Merge,      \* 16 KiB: the longest chunk a write is merged into
  Segments,   \* 128: chunks of one page
  Pages,      \* the page sizes readers ask for
  MaxBytes    \* bound: bytes written

VARIABLES
  widths,   \* the lengths of characters the command prints
  chunks, cursor, starts,
  at,       \* the reader's cursor: NextCursor of its last page
  seen,     \* positions the reader was given
  told      \* positions it skipped on a page that reported a gap

vars == <<widths, chunks, cursor, starts, at, seen, told>>

Length(c) == c.end - c.start
Bytes(cs) == MapThenSumSet(LAMBDA i : Length(cs[i]), DOMAIN cs)
First == IF chunks = <<>> THEN cursor ELSE chunks[1].start

\* The next character boundary at or after p, within a text that ends at end.
Aligned(p, end) == Min({q \in p..end : q \in starts \/ q = end})

Init ==
  /\ widths \in {{1}, {1, 2}}
  /\ chunks = <<>> /\ cursor = 0 /\ starts = {}
  /\ at = 0 /\ seen = {} /\ told = {}

----------------------------------------------------------------------------
(* append *)

Extended(cs, stream, end) ==
  IF /\ cs # <<>> /\ cs[Len(cs)].stream = stream
     /\ Length(cs[Len(cs)]) + (end - cursor) <= Merge
    THEN [cs EXCEPT ![Len(cs)].end = end]
    ELSE Append(cs, [stream |-> stream, start |-> cursor, end |-> end])

TrimmedRaw(cs, begins) ==
  LET k == Min({k \in 0..Len(cs) :
             LET rest == SubSeq(cs, k + 1, Len(cs)) IN
             /\ Len(rest) <= MaxChunks
             /\ Bytes(rest) <= Limit \/ Bytes(rest) - Limit < Length(rest[1])})
      rest == SubSeq(cs, k + 1, Len(cs))
  IN IF Bytes(rest) <= Limit THEN rest
     ELSE [rest EXCEPT ![1].start = @ + (Bytes(rest) - Limit)]

\* Whole chunks go from the front until the excess is less than the first chunk,
\* which is then cut at the next character.
Trimmed(cs, begins) ==
  LET k == Min({k \in 0..Len(cs) :
             LET rest == SubSeq(cs, k + 1, Len(cs)) IN
             /\ Len(rest) <= MaxChunks
             /\ Bytes(rest) <= Limit \/ Bytes(rest) - Limit < Length(rest[1])})
      rest == SubSeq(cs, k + 1, Len(cs))
      cut == rest[1].start + (Bytes(rest) - Limit)
  IN IF Bytes(rest) <= Limit THEN rest
     ELSE [rest EXCEPT ![1].start =
             Min({q \in cut..rest[1].end : q \in begins \/ q = rest[1].end})]

\* One character after the other, as the reader of a pipe delivers them.
Write(stream, width) ==
  /\ width \in widths /\ cursor + width <= MaxBytes
  /\ starts' = starts \cup {cursor}
  /\ cursor' = cursor + width
  /\ chunks' = Trimmed(Extended(chunks, stream, cursor + width), starts')
  /\ UNCHANGED <<widths, at, seen, told>>

----------------------------------------------------------------------------
(* snapshot: a page from a cursor *)

\* The longest prefix of whole characters of from..end that fits (truncateUTF8Bytes).
Fit(from, end, room) ==
  IF end - from <= room THEN end
  ELSE Max({q \in from..(from + room) : q \in starts \/ q = from})

\* The state of the loop after the first i chunks: where the reader goes on, how
\* many bytes and segments the page has, whether a gap was met and the loop left.
Page(from, limit) ==
  LET begin == IF from < First THEN First ELSE from
      page[i \in 0..Len(chunks)] ==
        IF i = 0 THEN [next |-> begin, size |-> 0, parts |-> 0, got |-> {},
                       gap |-> from < First, over |-> FALSE]
        ELSE LET p == page[i - 1]
                 c == chunks[i]
                 raw == IF begin > c.start THEN begin ELSE c.start
                 off == Aligned(raw, c.end)
                 end == Fit(off, c.end, limit - p.size)
             IN CASE p.over \/ c.end <= begin -> p
                  [] OTHER ->
                     LET q == IF off # raw THEN [p EXCEPT !.gap = TRUE, !.next = off] ELSE p
                     IN CASE off = c.end -> q
                          [] end = off -> [q EXCEPT !.over = TRUE]
                          [] OTHER ->
                             [q EXCEPT !.next = end, !.size = @ + (end - off), !.parts = @ + 1,
                                       !.got = @ \cup (off..(end - 1)),
                                       !.over = p.size + (end - off) >= limit
                                                \/ p.parts + 1 >= Segments]
  IN page[Len(chunks)]

\* poll: one page from the reader's cursor, which then stands at NextCursor.
Poll(limit) ==
  LET p == Page(at, limit) IN
  /\ at < cursor
  /\ at' = p.next
  /\ seen' = seen \cup p.got
  /\ told' = IF p.gap THEN told \cup ((at..(p.next - 1)) \ p.got) ELSE told
  /\ UNCHANGED <<widths, chunks, cursor, starts>>

Next ==
  \/ \E stream \in {"stdout", "stderr"}, width \in {1, 2} : Write(stream, width)
  \/ \E limit \in Pages : Poll(limit)

----------------------------------------------------------------------------
(* Properties *)

\* The tail is a window of at most Limit bytes up to the newest byte, without
\* holes between its chunks, and it begins at a character.
WindowExact ==
  /\ Bytes(chunks) <= Limit /\ Len(chunks) <= MaxChunks
  /\ \A i \in DOMAIN chunks :
       chunks[i].end = IF i = Len(chunks) THEN cursor ELSE chunks[i + 1].start
  /\ First \in starts \cup {cursor}

\* What the reader went past although no page gave it or said that there was a gap.
Silent == {p \in 0..(at - 1) : p \notin seen \cup told}

\* A page passes over output without a word only from a character of several bytes that
\* did not fit, to the end of its chunk, when the next chunk has a shorter one: never in
\* output of one-byte characters, and never what was trimmed or starts inside a character.
SilentBehindCharacter ==
  \A p \in Silent : \E q \in Silent \cap starts :
    q <= p /\ q..p \subseteq Silent /\ q + 1 \in (0..(cursor - 1)) \ starts

(* The output a page shows is output the command wrote: the kept window has no *)
(* hole, what was dropped before it is reported, and what is passed over in it *)
(* is the rest of a chunk behind a character that did not fit (append,         *)
(* snapshot, poll).                                                            *)
OutputExact == WindowExact /\ SilentBehindCharacter
=============================================================================
