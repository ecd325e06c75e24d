-------------------------------- MODULE Tty ---------------------------------
(***************************************************************************)
(* The terminal driver (src/Xinu/device/tty): an upper half of read, write *)
(* and control calls, and a lower half of two interrupt routines, which    *)
(* share two circular buffers and the semaphores that count their contents *)
(* (tyisem: characters to read, tyosem: places to write to).  In cooked    *)
(* mode the lower half edits the line being typed in the tail of the input *)
(* buffer and announces it when it is complete.                            *)
(*                                                                         *)
(* The calls run with interrupts disabled and lose the CPU only in wait: a *)
(* call is one action, plus one each time it has waited.  A woken process  *)
(* may have to wait for the CPU while interrupts go on.  The input routine *)
(* runs with rescheduling deferred (ttyhandler.c), the output routine does *)
(* not: its signaln may give the CPU to the writer it wakes, and the rest  *)
(* of the routine runs when the process that was interrupted goes on.      *)
(***************************************************************************)
EXTENDS Integers, Sequences, FiniteSets, SequencesExt, FiniteSetsExt

CONSTANTS
  TY_IBUFLEN, TY_OBUFLEN, TY_EBUFLEN,  \* the lengths of the three buffers
  UART_FIFO_SIZE,                      \* the output FIFO of the UART
  MaxUnfinished,                       \* bound: output routines switched away from at a time
  Loads   \* who uses the terminal: readers, writers, keys typed, modes set, texts written

Proc == UNION {l.readers \cup l.writers : l \in Loads}

ASSUME TtySizes ==
  /\ {TY_IBUFLEN, TY_OBUFLEN, TY_EBUFLEN, UART_FIFO_SIZE} \subseteq Nat \ {0}
  /\ MaxUnfinished \in Nat
  /\ IsFiniteSet(Proc)
  /\ \A l \in Loads : /\ l.reads \subseteq Nat /\ l.keys \subseteq STRING
                      /\ l.texts \subseteq Seq(STRING)

VARIABLES
  load,                              \* the element of Loads that runs
  tyibuff, tyihead, tyitail,         \* input: buffer, next to read, next to store
  tyicursor, tyimode, tyiecho,       \* length of the line being typed, modes
  tyobuff, tyohead, tyotail, tyoheld,\* output, and whether ^S holds it
  echoes,                            \* how many characters the echo buffer shows
  etbei,                             \* the transmit interrupt of the UART is enabled
  unfinished,                        \* how many runs of ttyhandle_out are switched away from
  count, queue,                      \* semaphores: permits, and who waits for one
  call,                              \* what is left to do of each process's call
  typed,                             \* history: the characters typed and not yet read
  written,                           \* history: the characters stored and not yet sent
  unsignalled,                       \* history: cbreak characters never announced (modulo length)
  spoiled,                           \* history: the directions in which data was overrun
  smashed                            \* the driver wrote past the end of tyibuff

inVars == <<tyibuff, tyihead, tyitail, tyicursor, typed, unsignalled, smashed>>
modeVars == <<tyimode, tyiecho>>
outVars == <<tyobuff, tyohead, tyotail, written>>
lineVars == <<tyoheld, echoes, etbei>>
ttyVars == <<load, inVars, modeVars, outVars, lineVars, unfinished, count, queue, call, spoiled>>

Idle == [at |-> "user", left |-> 0, cooked |-> FALSE, first |-> FALSE, text |-> <<>>]
IbufPos == 0 .. TY_IBUFLEN-1
ObufPos == 0 .. TY_OBUFLEN-1

\* ttyinit.
TtyInit ==
  /\ load \in Loads
  /\ tyibuff = [i \in IbufPos |-> "empty"] /\ tyihead = 0 /\ tyitail = 0
  /\ tyicursor = 0 /\ tyimode = "cooked" /\ tyiecho = TRUE
  /\ tyobuff = [i \in ObufPos |-> "empty"] /\ tyohead = 0 /\ tyotail = 0
  /\ tyoheld = FALSE /\ echoes = 0 /\ etbei = TRUE /\ unfinished = 0
  /\ count = [tyisem |-> 0, tyosem |-> TY_OBUFLEN]
  /\ queue = [tyisem |-> <<>>, tyosem |-> <<>>]
  /\ call = [p \in Proc |-> Idle]
  /\ typed = <<>> /\ written = <<>> /\ unsignalled = 0
  /\ spoiled = {} /\ smashed = FALSE
-----------------------------------------------------------------------------
\* signaln: n waiting processes are woken, and what is left over is counted.
Signaln(s, n) ==
  LET woken == Min({n, Len(queue[s])})
  IN /\ count' = [count EXCEPT ![s] = @ + n - woken]
     /\ queue' = [queue EXCEPT ![s] = SubSeq(@, woken + 1, Len(@))]

Semcount(s) == count[s] - Len(queue[s])

Waiting(p) == \E s \in {"tyisem", "tyosem"} : p \in Range(queue[s])
Free(p) == call[p].at = "user"
Runs(p, at) == call[p].at = at /\ ~Waiting(p)
\* The permit a woken process was given counts as one it can use at once.
Usable(p, s) == IF Free(p) THEN count[s] ELSE count[s] + 1

\* p uses n permits of s and waits for one more if it is not done, as frame says.
Consume(p, s, n, done, frame) ==
  /\ count' = [count EXCEPT ![s] = Usable(p, s) - n]
  /\ queue' = IF done THEN queue ELSE [queue EXCEPT ![s] = Append(@, p)]
  /\ call' = [call EXCEPT ![p] = IF done THEN Idle ELSE frame]
-----------------------------------------------------------------------------
(***************************************************************************)
(* Reading: ttyread calls ttygetc until it has enough or the line ends.    *)
(***************************************************************************)
Unread(k) == tyibuff[(tyihead + k - 1) % TY_IBUFLEN]

\* The last character of a read is the k-th, if there are so many.
Ends(f, k) ==
  \/ k = f.left
  \/ f.cooked /\ Unread(k) = "NL"
  \/ f.cooked /\ tyimode = "cooked" /\ f.first /\ k = 1 /\ Unread(k) = "EOF"

Advance(i, n) == (i + n) % TY_IBUFLEN

\* ttygetc in a loop: take characters until the read is complete or must wait.
Take(p, f) ==
  LET have == Usable(p, "tyisem")
      ends == {k \in 1 .. have : Ends(f, k)}
      n    == IF ends = {} THEN have ELSE Min(ends)
  IN /\ Consume(p, "tyisem", n, ends # {}, [f EXCEPT !.left = @ - n, !.first = @ /\ n = 0])
     /\ tyihead' = Advance(tyihead, n)
     /\ typed' = SubSeq(typed, n + 1, Len(typed))

ReadCall(n) ==
  [Idle EXCEPT !.at = "read", !.left = n, !.cooked = tyimode = "cooked", !.first = TRUE]

\* ttyread: zero characters means those that are there, except in cooked mode,
\* which reads at least one.
Ttyread(p, n) ==
  LET m == IF n > 0 THEN n ELSE IF tyimode = "cooked" THEN 1 ELSE Semcount("tyisem")
  IN /\ p \in load.readers /\ Free(p) /\ m > 0
     /\ Take(p, ReadCall(m))
     /\ UNCHANGED <<load, tyibuff, tyitail, tyicursor, unsignalled, smashed,
                    modeVars, outVars, lineVars, unfinished, spoiled>>

TtyreadWoken(p) ==
  /\ Runs(p, "read")
  /\ Take(p, call[p])
  /\ UNCHANGED <<load, tyibuff, tyitail, tyicursor, unsignalled, smashed,
                 modeVars, outVars, lineVars, unfinished, spoiled>>

\* TC_NEXTC waits for a character, looks at one and gives the permit back; it
\* looks at *tyitail, the place of the next character to come.
TtycontrolNextc(p) ==
  /\ p \in load.readers /\ Free(p) /\ count.tyisem = 0
  /\ Consume(p, "tyisem", 0, FALSE, [Idle EXCEPT !.at = "nextc"])
  /\ UNCHANGED <<load, inVars, modeVars, outVars, lineVars, unfinished, spoiled>>

NextcWoken(p) ==
  /\ Runs(p, "nextc")
  /\ Signaln("tyisem", 1)
  /\ call' = [call EXCEPT ![p] = Idle]
  /\ UNCHANGED <<load, inVars, modeVars, outVars, lineVars, unfinished, spoiled>>

\* TC_MODER, TC_MODEC, TC_MODEK, TC_ECHO, TC_NOECHO: nothing else is reset.
Ttycontrol ==
  /\ \/ \E m \in load.modes : tyimode' = m /\ UNCHANGED tyiecho
     \/ tyiecho' \in load.echo /\ UNCHANGED tyimode
  /\ UNCHANGED <<load, inVars, outVars, lineVars, unfinished, count, queue, call, spoiled>>
-----------------------------------------------------------------------------
(***************************************************************************)
(* Writing: ttywrite calls ttyputc for every character, which sends CR     *)
(* before NL and starts the transmitter.                                   *)
(***************************************************************************)
\* The place of the k-th character in what is sent.
Sent(text, k) == k + Cardinality({i \in 1..k : text[i] = "NL"})
Expanded(text) ==
  [j \in 1 .. Sent(text, Len(text)) |->
     LET k == Min({i \in DOMAIN text : Sent(text, i) >= j})
     IN IF Sent(text, k) = j THEN text[k] ELSE "CR"]

\* As many characters of the text as there are places; the transmitter is started.
Store(p, f) ==
  LET n == Min({Usable(p, "tyosem"), Len(f.text)})
  IN /\ Consume(p, "tyosem", n, n = Len(f.text), [f EXCEPT !.text = SubSeq(@, n + 1, Len(@))])
     /\ tyobuff' = [i \in ObufPos |->
                      LET k == ((i - tyotail) % TY_OBUFLEN) + 1
                      IN IF k <= n THEN f.text[k] ELSE tyobuff[i]]
     /\ tyotail' = (tyotail + n) % TY_OBUFLEN
     /\ written' = written \o SubSeq(f.text, 1, n)
     /\ etbei' = (etbei \/ n > 0)

Ttywrite(p) ==
  /\ p \in load.writers /\ Free(p)
  /\ \E text \in load.texts : Store(p, [Idle EXCEPT !.at = "write", !.text = Expanded(text)])
  /\ UNCHANGED <<load, inVars, modeVars, tyohead, tyoheld, echoes, unfinished, spoiled>>

TtywriteWoken(p) ==
  /\ Runs(p, "write")
  /\ Store(p, call[p])
  /\ UNCHANGED <<load, inVars, modeVars, tyohead, tyoheld, echoes, unfinished, spoiled>>

\* Mutant: one place is announced however many characters were sent.
OutSignalOnce(n) == Signaln("tyosem", Min({n, 1}))

\* The places of the characters that were sent are announced.
OutSignal(n) == Signaln("tyosem", n)

\* The echo queue and the output queue are empty.
QueuesEmpty == echoes = 0 /\ Semcount("tyosem") >= TY_OBUFLEN

\* ttyhandle_out, up to the end of its signaln: echoes go first, then as many
\* characters as tyosem says are queued.  If that wakes nobody, or nobody who takes
\* the CPU, the second test follows at once, and the interrupt is turned off if
\* there is nothing more to send.
TtyhandleOut(uspace) ==
  LET e == Min({uspace, echoes})
      n == IF QueuesEmpty THEN 0 ELSE Min({uspace - e, TY_OBUFLEN - Semcount("tyosem")})
  IN /\ etbei /\ ~tyoheld
     /\ echoes' = echoes - e
     /\ tyohead' = (tyohead + n) % TY_OBUFLEN
     /\ OutSignal(n)
     /\ written' = SubSeq(written, n + 1, Len(written))
     /\ spoiled' = IF n > Len(written) THEN spoiled \cup {"output"} ELSE spoiled
     /\ \/ etbei' = ~QueuesEmpty' /\ UNCHANGED unfinished
        \/ /\ n > 0 /\ queue.tyosem # <<>>
           /\ unfinished < MaxUnfinished /\ unfinished' = unfinished + 1
           /\ UNCHANGED etbei
     /\ UNCHANGED <<load, inVars, modeVars, tyobuff, tyotail, tyoheld, call>>

\* Mutant: the interrupt is turned off without the second test.
TtyhandleOutEndUntested ==
  /\ unfinished > 0 /\ unfinished' = unfinished - 1
  /\ etbei' = FALSE
  /\ UNCHANGED <<load, inVars, modeVars, outVars, tyoheld, echoes, count, queue, call, spoiled>>

\* The second test of a run that was switched away from: it reads what the queues
\* hold by now.
TtyhandleOutEnd ==
  /\ unfinished > 0 /\ unfinished' = unfinished - 1
  /\ etbei' = (etbei /\ ~QueuesEmpty)
  /\ UNCHANGED <<load, inVars, modeVars, outVars, tyoheld, echoes, count, queue, call, spoiled>>
-----------------------------------------------------------------------------
(***************************************************************************)
(* Input: ttyhandle_in is called for each character of the UART.           *)
(***************************************************************************)
\* Store a character at the tail, which then is at next.  Behind an EOF the tail
\* may be past the buffer, and what lies behind it is the semaphore's number.
StoreIn(ch, next) ==
  /\ smashed' = (tyitail = TY_IBUFLEN)
  /\ tyibuff' = IF tyitail = TY_IBUFLEN THEN tyibuff ELSE [tyibuff EXCEPT ![tyitail] = ch]
  /\ tyitail' = next
  /\ spoiled' = IF smashed' \/ Len(typed) >= TY_IBUFLEN THEN spoiled \cup {"input"} ELSE spoiled
  /\ typed' = IF "input" \in spoiled' THEN <<>> ELSE Append(typed, ch)

Wrapped == IF tyitail + 1 >= TY_IBUFLEN THEN 0 ELSE tyitail + 1

\* eputc, n times; with more than it holds the echo buffer seems to be empty.
Eputc(n) == echoes' = (echoes + n) % TY_EBUFLEN /\ etbei' = (etbei \/ n > 0)
Echo(n) == IF tyiecho THEN Eputc(n) ELSE UNCHANGED <<echoes, etbei>>

\* echoch: CR before NL, and a control character as two printable ones.
Shown(ch) == IF ch \in {"NL", "EOF", "ERASE", "KILL"} THEN 2 ELSE 1

RawChar(ch) ==
  /\ tyimode = "raw" /\ count.tyisem < TY_IBUFLEN
  /\ StoreIn(ch, Wrapped) /\ Signaln("tyisem", 1)
  /\ UNCHANGED <<tyicursor, lineVars, unsignalled>>

\* ^S and ^Q; every other character starts output that was held.
Hold == tyoheld' = TRUE /\ UNCHANGED <<echoes, etbei>>
Restart == tyoheld' = FALSE /\ etbei' = TRUE /\ UNCHANGED echoes

CbreakChar(ch) ==
  /\ tyimode = "cbreak" /\ tyoheld' = FALSE
  /\ IF count.tyisem >= TY_IBUFLEN
     THEN Eputc(1) /\ UNCHANGED <<inVars, spoiled>>
     ELSE /\ StoreIn(ch, Wrapped) /\ Echo(Shown(ch))
          /\ unsignalled' = (unsignalled + 1) % TY_IBUFLEN
          /\ UNCHANGED <<tyihead, tyicursor>>
  /\ UNCHANGED <<count, queue>>

\* Mutant: the tail stays behind the line that is killed.
RetractCursor(n) ==
  /\ tyicursor' = tyicursor - n
  /\ typed' = SubSeq(typed, 1, Len(typed) - n)
  /\ UNCHANGED <<tyibuff, tyihead, tyitail, unsignalled, smashed, spoiled, count, queue>>

\* The line being typed loses its last n characters.
Retract(n) ==
  /\ tyitail' = IF tyitail - n < 0 THEN tyitail - n + TY_IBUFLEN ELSE tyitail - n
  /\ tyicursor' = tyicursor - n
  /\ typed' = SubSeq(typed, 1, Len(typed) - n)
  /\ UNCHANGED <<tyibuff, tyihead, unsignalled, smashed, spoiled, count, queue>>

KillLine == tyoheld' = FALSE /\ Retract(tyicursor) /\ Eputc(2)

EraseChar ==
  /\ tyoheld' = FALSE
  /\ IF tyicursor > 0 THEN Retract(1) /\ Echo(3)
     ELSE UNCHANGED <<inVars, echoes, etbei, count, queue, spoiled>>

\* Mutant: the end of the line itself is not announced.
EndOfLineShort ==
  /\ tyoheld' = FALSE /\ Echo(2)
  /\ StoreIn("NL", Wrapped) /\ Signaln("tyisem", tyicursor)
  /\ tyicursor' = 0
  /\ UNCHANGED <<tyihead, unsignalled>>

\* The end of a line is stored without a test for space, and announces the line.
EndOfLine ==
  /\ tyoheld' = FALSE /\ Echo(2)
  /\ StoreIn("NL", Wrapped) /\ Signaln("tyisem", tyicursor + 1)
  /\ tyicursor' = 0
  /\ UNCHANGED <<tyihead, unsignalled>>

Full == count.tyisem + tyicursor >= TY_IBUFLEN - 1
Bell == tyoheld' = FALSE /\ Eputc(1) /\ UNCHANGED <<inVars, count, queue, spoiled>>

\* The tail is not wrapped behind an EOF.
EndOfFile ==
  /\ tyoheld' = FALSE /\ Echo(2)
  /\ IF tyicursor # 0 THEN UNCHANGED <<inVars, count, queue, spoiled>>
     ELSE /\ StoreIn("EOF", tyitail + 1) /\ Signaln("tyisem", 1)
          /\ UNCHANGED <<tyihead, tyicursor, unsignalled>>

LineChar(ch) ==
  /\ tyoheld' = FALSE /\ Echo(1)
  /\ StoreIn(ch, Wrapped) /\ tyicursor' = tyicursor + 1
  /\ UNCHANGED <<tyihead, unsignalled, count, queue>>

CookedChar(ch) ==
  \/ ch = "KILL" /\ KillLine
  \/ ch = "ERASE" /\ EraseChar
  \/ ch = "NL" /\ EndOfLine
  \/ ch \notin {"KILL", "ERASE", "NL"} /\ Full /\ Bell
  \/ ch = "EOF" /\ ~Full /\ EndOfFile
  \/ ch \notin {"KILL", "ERASE", "NL", "EOF"} /\ ~Full /\ LineChar(ch)

\* One character of the UART is handled; a full buffer drops it in raw mode.
TtyhandleIn(ch) ==
  /\ count.tyisem <= TY_IBUFLEN   \* bound: lines typed ahead on a full buffer
  /\ IF tyimode = "raw" THEN RawChar(ch) /\ UNCHANGED tyihead
     ELSE \/ ch = "STOP" /\ Hold /\ UNCHANGED <<inVars, count, queue, spoiled>>
          \/ ch = "START" /\ Restart /\ UNCHANGED <<inVars, count, queue, spoiled>>
          \/ ch \notin {"STOP", "START"} /\ tyimode = "cbreak" /\ CbreakChar(ch)
          \/ ch \notin {"STOP", "START"} /\ tyimode = "cooked" /\ CookedChar(ch)
  /\ UNCHANGED <<load, modeVars, outVars, unfinished, call>>
-----------------------------------------------------------------------------
TtyNext ==
  /\ ~smashed
  /\ \/ \E p \in Proc :
          \/ \E n \in load.reads : Ttyread(p, n)
          \/ TtyreadWoken(p)
          \/ TtycontrolNextc(p)
          \/ NextcWoken(p)
          \/ Ttywrite(p)
          \/ TtywriteWoken(p)
     \/ Ttycontrol
     \/ \E ch \in load.keys : TtyhandleIn(ch)
     \/ \E u \in 1 .. UART_FIFO_SIZE : TtyhandleOut(u)
     \/ TtyhandleOutEnd

\* The UART drains its FIFO and then interrupts, as long as that is enabled.
TtyFairness == WF_ttyVars(~smashed /\ TtyhandleOut(UART_FIFO_SIZE))

TtySpec == TtyInit /\ [][TtyNext]_ttyVars /\ TtyFairness
-----------------------------------------------------------------------------
Woken(at) == Cardinality({p \in Proc : Runs(p, at)})

\* The distance from head to tail of each buffer is what its semaphore says is
\* there, plus what the semaphore has promised to processes that have not run
\* yet; for input, plus the line being typed (which no semaphore counts, so that
\* erasing and killing need not undo a signal) and what cbreak mode never
\* announces.  Lines, wake-ups, mode changes and overruns keep it so.
PlacesCounted ==
  /\ ~smashed =>
       (tyitail - tyihead) % TY_IBUFLEN =
         (count.tyisem + Woken("read") + Woken("nextc") + tyicursor + unsignalled) % TY_IBUFLEN
  /\ (tyotail - tyohead + count.tyosem + Woken("write")) % TY_OBUFLEN = 0

\* Unless input was overrun, the characters from the head on are those typed and
\* not erased, in that order; the tail is outside the buffer only behind an EOF,
\* and only then can the driver write past the end.
InputInOrder ==
  /\ "input" \notin spoiled => \A k \in DOMAIN typed : Unread(k) = typed[k]
  /\ smashed \/ tyitail = TY_IBUFLEN => tyibuff[TY_IBUFLEN - 1] = "EOF"

\* Unless the transmitter ran ahead of a writer that had been woken and had not
\* stored its character, what is sent next is what was written first, and every
\* place of the buffer is free, written or promised.
OutputInOrder ==
  "output" \notin spoiled =>
    /\ \A k \in DOMAIN written : tyobuff[(tyohead + k - 1) % TY_OBUFLEN] = written[k]
    /\ Len(written) + count.tyosem + Woken("write") = TY_OBUFLEN

\* The transmitter overtakes nobody but a writer that had been woken: one that waits
\* in ttyputc is not overtaken, because the buffer is full as long as nobody is woken.
AheadOnlyOfWoken ==
  [][spoiled' \ spoiled = {"output"} => Woken("write") > 0]_ttyVars

\* What was written is sent: the transmitter goes on for ever, unless everything
\* has been sent, ^S holds it, it got ahead of a writer, or keys are typed for ever
\* whose echoes go first.  No start of the transmitter is lost, not even one between
\* the signaln of ttyhandle_out and its second test.
OutputDrains ==
  \/ []<><<Len(written') < Len(written)>>_ttyVars
  \/ []<>(written = <<>> \/ tyoheld \/ "output" \in spoiled)
  \/ []<><<\E ch \in load.keys : TtyhandleIn(ch)>>_ttyVars
=============================================================================
