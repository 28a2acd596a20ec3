-------------------------------- MODULE PtyIO --------------------------------
(***************************************************************************)
(* The bytes of one terminal pane (lmux-pty, pane.rs, the query responder  *)
(* of lmux-libghostty): the child, the two buffers of the kernel's PTY,    *)
(* the reader thread, the bounded channel to the GTK thread, and the GTK   *)
(* thread, which writes to the PTY with a blocking write_all.              *)
(*                                                                         *)
(* Output is a sequence of byte classes; the reader may be handed it in    *)
(* any pieces.  Input is counted.  The child echoes what it reads, and is  *)
(* a program that does read.  Text, times and the terminal's cells are     *)
(* data.                                                                   *)
(***************************************************************************)
EXTENDS Integers, Sequences, FiniteSets, SequencesExt

CONSTANTS
    InCap, OutCap,          \* the kernel's buffers, in bytes
    ReaderChanCapacity,     \* READER_CHAN_CAPACITY, in chunks
    TranscriptMaxLines,     \* TRANSCRIPT_MAX_LINES
    Scenes                  \* bounds: see Scene

\* the starts of sequences: a title, one longer than MAX_PENDING_OSC_QUERY, a
\* query
Osc == {"]0;", "]0;...", "]10;?"}

\* what the child prints, in bytes.  A cut inside the body of a sequence is as
\* good as one before it, so its first bytes are one
Bytes(item) ==
    CASE item = "text" -> <<"x", "newline">>
      [] item = "bell" -> <<"bel">>
      [] item = "title" -> <<"esc", "]0;", "bel">>
      [] item = "long title" -> <<"esc", "]0;...", "bel">>
      [] item = "query" -> <<"esc", "]10;?", "esc", "\\">>
      [] item = "query, bel" -> <<"esc", "]10;?", "bel">>

\* what the child may print and in how many bytes, how many are typed, pasted
\* or sent, and how often an agent captures
Scene == [printable : SUBSET {"text", "bell", "title", "long title", "query", "query, bel"},
          output : Nat, input : Nat, captures : Nat]

\* the buffers between the child and the GTK thread hold all that is printed,
\* echoed or answered, were every chunk one byte (one more is in the reader's
\* hands).  A longer paste can block the GTK thread for good
ASSUME PtyAssumption ==
    /\ {InCap, OutCap, ReaderChanCapacity, TranscriptMaxLines} \subseteq Nat \ {0}
    /\ Scenes \subseteq Scene
    /\ \A s \in Scenes : s.output + s.output \div 4 + s.input <= OutCap + ReaderChanCapacity + 1

VARIABLES
    child,              \* "running", "exited", "killed" with an item half printed
    printing,           \* what the child has yet to write
    output, input,      \* the kernel's buffers
    hand,               \* the chunk the reader thread holds
    channel,
    writing,            \* what is left of the GTK thread's write_all
    scanner,            \* BellScanner
    last_bell,          \* a BellReceived went out within BELL_DEBOUNCE
    pending_osc_query,
    transcript,         \* TranscriptBuffer
    exit_code,          \* the exit was noticed
    agent,              \* an agent that follows the transcript
    scene,              \* bound: what is left of the scene
    unrung, unanswered, \* bells and queries printed and not dealt with
    notice              \* what BellReceived said: "none", "owed" once a bell was
                        \* printed, "given", "spurious" if none was printed

ptyVars == <<child, printing, output, input>>
readerVars == <<hand, channel>>
parserVars == <<scanner, last_bell, pending_osc_query>>
owedVars == <<unrung, unanswered, notice>>
vars == <<ptyVars, readerVars, writing, parserVars, transcript, exit_code, agent,
          scene, owedVars>>

Init ==
    /\ child = "running" /\ printing = <<>> /\ output = <<>> /\ input = 0
    /\ hand = <<>> /\ channel = <<>> /\ writing = 0
    /\ scanner = [in_osc |-> FALSE, prev_esc |-> FALSE] /\ pending_osc_query = <<>>
    /\ last_bell = FALSE
    /\ transcript = [lines |-> <<>>, next_sequence |-> 1, dropped_before |-> 1]
    /\ exit_code = FALSE
    /\ agent = [since |-> 0, first |-> 0, got |-> {}, told |-> FALSE]
    /\ scene \in Scenes
    /\ unrung = 0 /\ unanswered = 0 /\ notice = "none"

-----------------------------------------------------------------------------
(* The child *)

ChildOnly == UNCHANGED <<readerVars, writing, parserVars, transcript, exit_code, agent>>

ChildPrints(item) ==
    /\ child = "running" /\ printing = <<>>
    /\ Len(Bytes(item)) <= scene.output
    /\ printing' = Bytes(item)
    /\ scene' = [scene EXCEPT !.output = @ - Len(Bytes(item))]
    /\ unrung' = unrung + IF item = "bell" THEN 1 ELSE 0
    /\ notice' = IF item = "bell" /\ notice = "none" THEN "owed" ELSE notice
    /\ unanswered' = unanswered + IF item \in {"query", "query, bel"} THEN 1 ELSE 0
    /\ UNCHANGED <<child, output, input>> /\ ChildOnly

ChildReads ==
    /\ child = "running" /\ printing = <<>>
    /\ input > 0
    /\ input' = input - 1
    /\ printing' = <<"x">>
    /\ UNCHANGED <<child, output, scene, owedVars>> /\ ChildOnly

ChildWrites ==
    /\ child = "running" /\ printing # <<>>
    /\ Len(output) < OutCap
    /\ output' = Append(output, Head(printing))
    /\ printing' = Tail(printing)
    /\ UNCHANGED <<child, input, scene, owedVars>> /\ ChildOnly

\* of its own accord between two items; SIGTERM or SIGKILL (the pane is
\* closed: terminate, kill) does not wait
ChildExits ==
    /\ child = "running"
    /\ child' = IF printing = <<>> THEN "exited" ELSE "killed"
    /\ printing' = <<>> /\ input' = 0
    /\ UNCHANGED <<output, scene, owedVars>> /\ ChildOnly

-----------------------------------------------------------------------------
(* The reader thread *)

ReaderOnly == UNCHANGED <<child, printing, input, writing, parserVars, transcript, exit_code,
                          agent, scene, owedVars>>

\* Mutation of MayRead: the reader and the writer share a lock
MayReadLocked == hand = <<>> /\ writing = 0

MayRead == hand = <<>>

\* a read returns what there is
ReaderReads ==
    /\ MayRead /\ output # <<>>
    /\ hand' = output
    /\ output' = <<>>
    /\ UNCHANGED channel /\ ReaderOnly

ReaderSends ==
    /\ hand # <<>>
    /\ Len(channel) < ReaderChanCapacity
    /\ channel' = Append(channel, hand)
    /\ hand' = <<>>
    /\ UNCHANGED output /\ ReaderOnly

-----------------------------------------------------------------------------
(* The GTK thread: output *)

\* BellScanner::scan of one byte: the state after it, and whether it rings
Scan(s, b) ==
    IF s.in_osc
      THEN [in_osc |-> ~(b = "bel" \/ (b = "\\" /\ s.prev_esc)), prev_esc |-> b = "esc", rings |-> 0]
    ELSE IF s.prev_esc
      THEN [in_osc |-> b \in Osc, prev_esc |-> FALSE, rings |-> 0]
    ELSE [in_osc |-> FALSE, prev_esc |-> b = "esc", rings |-> IF b = "bel" THEN 1 ELSE 0]

ScanAll(s, bytes) ==
    FoldLeft(LAMBDA acc, b :
                 LET r == Scan(acc, b)
                 IN  [in_osc |-> r.in_osc, prev_esc |-> r.prev_esc, rings |-> acc.rings + r.rings],
             [in_osc |-> s.in_osc, prev_esc |-> s.prev_esc, rings |-> 0], bytes)

\* osc_body_end: where the body that starts at i ends, 0 if it does not
BodyEnd(bytes, i) ==
    LET ends == {j \in i..Len(bytes) :
                    \/ bytes[j] = "bel"
                    \/ bytes[j] = "esc" /\ j < Len(bytes) /\ bytes[j + 1] = "\\"}
    IN  IF ends = {} THEN 0 ELSE CHOOSE j \in ends : \A k \in ends : j <= k

\* store_pending_osc_query: too long a sequence is forgotten
Pending(rest) == IF "]0;..." \in ToSet(rest) THEN <<>> ELSE rest

\* respond_to_terminal_queries: how many queries are complete, and the
\* unfinished sequence that is kept for the next chunk
Respond(bytes) ==
    LET step[i \in 1..Len(bytes) + 2] ==
            IF i > Len(bytes) THEN [answers |-> 0, rest |-> <<>>]
            ELSE IF bytes[i] # "esc" THEN step[i + 1]
            ELSE IF i = Len(bytes) THEN [answers |-> 0, rest |-> <<"esc">>]
            ELSE IF bytes[i + 1] \notin Osc THEN step[i + 1]
            ELSE LET end == BodyEnd(bytes, i + 2)
                     next == IF bytes[end] = "bel" THEN end + 1 ELSE end + 2
                     is == bytes[i + 1] = "]10;?" /\ end = i + 2
                 IN  IF end = 0 THEN [answers |-> 0, rest |-> Pending(SubSeq(bytes, i, Len(bytes)))]
                     ELSE [step[next] EXCEPT !.answers = @ + IF is THEN 1 ELSE 0]
    IN  step[1]

\* Mutation of Tokens: what is pending is thrown away
FreshTokens(bytes) == Respond(bytes)

\* the scan starts with what was pending
Tokens(bytes) == Respond(pending_osc_query \o bytes)

\* append_bytes: the non-empty pieces between newlines, each a line
LineCount(bytes) ==
    Cardinality({i \in DOMAIN bytes : bytes[i] # "newline" /\ (i = 1 \/ bytes[i - 1] = "newline")})

\* append_line
AppendLine(t) ==
    LET lines == Append(t.lines, t.next_sequence)
        over == Len(lines) > TranscriptMaxLines
    IN  [lines |-> IF over THEN Tail(lines) ELSE lines,
         next_sequence |-> t.next_sequence + 1,
         dropped_before |-> IF over THEN Head(lines) + 1 ELSE t.dropped_before]

AppendBytes(t, bytes) == FoldLeft(LAMBDA acc, i : AppendLine(acc), t, [i \in 1..LineCount(bytes) |-> i])

Idle == writing = 0

\* a chunk with bells calls back once, unless one did within BELL_DEBOUNCE
Fires(rings) == rings > 0 /\ ~last_bell

\* the GTK task of the pane takes a chunk: bells, transcript, terminal, and
\* the answers to queries are written back at once
ReceiveChunk ==
    LET bytes == Head(channel)
        scanned == ScanAll(scanner, bytes)
        tokens == Tokens(bytes)
    IN  /\ Idle /\ channel # <<>>
        /\ channel' = Tail(channel)
        /\ scanner' = [in_osc |-> scanned.in_osc, prev_esc |-> scanned.prev_esc]
        /\ unrung' = unrung - scanned.rings
        /\ last_bell' = (last_bell \/ Fires(scanned.rings))
        /\ notice' = IF ~Fires(scanned.rings) THEN notice
                     ELSE IF notice = "none" THEN "spurious" ELSE "given"
        /\ transcript' = AppendBytes(transcript, bytes)
        /\ pending_osc_query' = tokens.rest
        /\ unanswered' = unanswered - tokens.answers
        /\ writing' = tokens.answers
        /\ UNCHANGED <<ptyVars, hand, exit_code, agent, scene>>

\* BELL_DEBOUNCE has passed
DebounceEnds ==
    /\ last_bell
    /\ last_bell' = FALSE
    /\ UNCHANGED <<ptyVars, readerVars, writing, scanner, pending_osc_query, transcript, exit_code,
                   agent, scene, owedVars>>

-----------------------------------------------------------------------------
(* The GTK thread: input, exit, transcript *)

GtkOnly == UNCHANGED <<readerVars, parserVars, owedVars>>

\* a key, a paste or terminal.send of n bytes
SendInput(n) ==
    /\ Idle
    /\ scene' = [scene EXCEPT !.input = @ - n]
    /\ writing' = n
    /\ GtkOnly /\ UNCHANGED <<ptyVars, transcript, exit_code, agent>>

\* write_all goes on while the kernel takes bytes, and gives up once the other
\* end is closed
WriteAll ==
    /\ writing > 0
    /\ IF child # "running" THEN writing' = 0 /\ UNCHANGED input
       ELSE input < InCap /\ input' = input + 1 /\ writing' = writing - 1
    /\ GtkOnly
    /\ UNCHANGED <<child, printing, output, transcript, exit_code, agent, scene>>

\* Mutation of TryWait: the exit is looked for when output arrives
TryWaitOnOutput == child # "running" /\ channel # <<>>

TryWait == child # "running"

\* the poll of try_wait, once a second
PollExit ==
    /\ Idle
    /\ ~exit_code /\ TryWait
    /\ exit_code' = TRUE
    /\ GtkOnly
    /\ UNCHANGED <<ptyVars, writing, transcript, agent, scene>>

\* Mutation of Truncated: the line after the last one seen may be missing
TruncatedLate(since) == since > 0 /\ since + 2 < transcript.dropped_before

Truncated(since) == since > 0 /\ since < transcript.dropped_before

\* capture_since
CaptureSince(since, max_lines) ==
    LET after == SelectSeq(transcript.lines, LAMBDA s : s > since)
    IN  [lines |-> SubSeq(after, 1, IF max_lines < Len(after) THEN max_lines ELSE Len(after)),
         truncated |-> Truncated(since)]

\* an agent asks for what is new since the last line it was given
Capture(max_lines) ==
    LET range == CaptureSince(agent.since, max_lines)
        n == Len(range.lines)
    IN  /\ Idle
        /\ scene.captures > 0
        /\ scene' = [scene EXCEPT !.captures = @ - IF n = 0 THEN 0 ELSE 1]
        /\ agent' = [since |-> IF n = 0 THEN agent.since ELSE range.lines[n],
                     first |-> IF agent.first = 0 /\ n > 0 THEN range.lines[1] ELSE agent.first,
                     got |-> agent.got \cup ToSet(range.lines),
                     told |-> agent.told \/ range.truncated]
        /\ GtkOnly
        /\ UNCHANGED <<ptyVars, writing, transcript, exit_code>>

-----------------------------------------------------------------------------
Next ==
    \/ \E item \in scene.printable : ChildPrints(item)
    \/ ChildReads \/ ChildWrites \/ ChildExits
    \/ ReaderReads \/ ReaderSends
    \/ ReceiveChunk \/ DebounceEnds \/ WriteAll \/ PollExit
    \/ \E n \in 1..scene.input : SendInput(n)
    \/ \E max_lines \in {1, TranscriptMaxLines} : Capture(max_lines)

\* threads and the main loop run; the child reads when it can, but need
\* neither print nor exit
Spec ==
    /\ Init /\ [][Next]_vars
    /\ WF_vars(ChildReads \/ ChildWrites)
    /\ WF_vars(ReaderReads \/ ReaderSends)
    /\ WF_vars(ReceiveChunk \/ WriteAll) /\ WF_vars(PollExit)

-----------------------------------------------------------------------------
Quiet == printing = <<>> /\ output = <<>> /\ hand = <<>> /\ channel = <<>>

(* However the kernel and the reader cut the output into chunks, every query   *)
(* is answered once and every bell is heard once, though not the BEL that ends *)
(* a title or a query.  Who printed bells has the user told, of several within *)
(* BELL_DEBOUNCE once.  (A child killed in the middle of an item is excused.)  *)
ChunksDoNotMatter ==
    Quiet /\ child # "killed" =>
        /\ unanswered = 0 /\ unrung = 0
        /\ notice \in {"none", "given"}

(* An agent that follows the transcript page by page, from the last line it    *)
(* was given, has every line up to there, or has been told that some are gone. *)
GapsAreTold ==
    agent.first..agent.since \subseteq agent.got \cup {0} \/ agent.told

(* The GTK thread comes back from every write to a child that reads: child,    *)
(* reader thread and GTK thread never wait for each other in a circle (within  *)
(* PtyAssumption, whose last line is what it takes).                           *)
WriteEnds == writing > 0 ~> Idle

(* A child that exits is noticed and its output is read to the end, even when  *)
(* the pane is writing to it.                                                  *)
ExitIsNoticed == child # "running" ~> exit_code /\ Quiet
=============================================================================
