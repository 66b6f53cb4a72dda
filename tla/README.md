# TLA+ models of the DttSP radio

`src/src/` is DttSP, a software radio: one process that takes sound from JACK,
runs receivers or a transmitter over it block by block, and is steered by text
commands that arrive as UDP datagrams. Beside it stand Morse keyers, which are
JACK clients of their own, and small clients and scripts.

What is hard in this code is less its arithmetic than its threads and its
memory: a realtime callback, a DSP thread, an update thread and two measuring
threads share rings, buffers and flags, partly under one semaphore and partly
under nothing; and every stage of the signal chain remembers something from
block to block that commands may upset. The models are about that: the threads,
the state machines that must survive any order of commands and blocks, the
bookkeeping of about two hundred command handlers, and the indices of filters,
resamplers and tables.

## 1. The system

| component | code | state | operations | meets |
|---|---|---|---|---|
| ring buffers | `ringb.c` | buffer, `wptr`, `rptr` | create, write, read, peek, vectors, advances, reset, clear, restart | one writer and one reader thread, no lock |
| audio engine | `sdr-main.c` | four rings, `doin`, `susp`, `offs`, hold buffers, `sync.buf.sem` | `audio_callback`, `gethold`, `puthold`, `process_samples_thread`, `reset_for_buflen` | JACK, the update thread |
| control threads | `sdr-main.c`, `update.c`, `thunk.c`, `splitfields.c` | `sync.upd.sem`, `mtr.sem`, `pws.sem`, `parm.buff`, `resp`, `running` | `execute`, `process_updates_thread`, `do_update`, `meter_thread`, `spectrum_thread`, `setFinished` | clients over UDP |
| commands and replay | `update.c` | `multirx` (`lis`, `act`, `nac`), settings of each receiver, the replay file | the command table and its handlers, `do_update`, `replay_updates`, `setNewBuflen` | runs inside the control threads |
| start-up and command line | `sdr-main.c`, `sdr.c` | `loc`, `uni`, `top` | `setup_defaults`, `setup`, `setup_from_commandline` | the environment, JACK, the rcfile |
| run states | `sdr-main.c`, `update.c` | `state`, `mode.trx`, `swch` | `setRunState`, `setTRX`, `setSWCH`, `setTEST`, `run_*` | commands between blocks |
| squelch | `sdr.c` | `squelch.flag`, `.set`, `.running` of each receiver and of the transmitter | `should_do_*`, `do_*_squelch`, `no_*_squelch` | commands between blocks |
| receive and transmit chains | `sdr.c` and the DSP files | filters, AGC and blanker delay lines, adaptive filters, equalisers, tables | `do_rx`, `do_tx`, the design of filters | one block at a time, under the semaphore |
| metering, spectrum | `meter.c`, `spectrum.c`, `sdr.c` | meter values, accumulation ring, snapshots, labels | `do_*_meter`, `do_*_spectrum`, `snap_*`, `compute_spectrum` | DSP thread, measuring threads |
| resampler | `resample.c` | phase and old samples | `newPolyPhaseFIR`, `PolyPhaseFIR` | its caller's blocks |
| tones | `spottone.c`, `cwtones.c` | phase and envelope of a tone | on, off, next block | receive chain, keyers |
| iambic keyers | `iambic-keyer*.c` | paddle memory, element state, rings, the link to a transmitter | `key_thread`, `sound_thread`, `poll_thread`, `update_thread`, timer, callback | JACK, serial lines, UDP |
| keyboard keyers | `keyboard-keyer*.c` | one segment of sound, the rings, `PTT_state`, `hang_time` | `reader_thread`, `sound_thread`, timer, callback | terminal, JACK, UDP |
| port clients, scripts | `port-clients.c`, `passport.c`, `*.py`, `*.erl`, `bin/` | sockets | send, receive | the update and measuring ports |

How they interact. JACK calls `audio_callback` once per period; it moves one
period out of the output rings and one into the input rings and posts
`buf.sem`. `process_samples_thread` waits for the post, takes blocks of
`hold.size.frames` samples while there are any, works on each under `upd.sem`
(run state, then the chain of every active receiver or of the transmitter, with
its taps for meters and spectrum) and puts it into the output rings.
`process_updates_thread` receives a datagram into `parm.buff` and calls
`do_update`, which runs the command's handler under `upd.sem`; `main` does the
same with the lines of the rcfile when the program starts. A request for a
measurement takes a snapshot and posts the semaphore of its thread, which packs
and sends it under `upd.sem`. `setFinished` clears `running` and ends the update
thread; `main`, which joins it, then cancels and joins the others.
`setNewBuflen` tears the whole workspace down, builds it up with the new block
length and runs the replay file on it. The keyers share no memory with the
radio: a keyer's threads read paddles or text, share a tone generator or one
segment of sound, and feed rings that their own JACK callback empties; the two
`-for-SR` keyers also key a transmitter over UDP.

What makes each part correct, and what could go wrong, is in the list of
hazards in `PROJECT.json`, each at its line. In a sentence each:

- rings: first in, first out, nothing torn or lost, no shared slot, no lock;
- audio engine: left and right stay together from capture to output, whatever is
  overrun, restarted or resized; no wake-up is lost; the DSP never starves;
- control: one thread at a time in the radio's state; each command answered with
  its own answer; each measurement sent; the program can end;
- commands: the count of receivers is true; a replay gives back what was
  recorded; an answer tells the latest value that was set for the channel asked
  about; what is installed is what was told; a refused line changes nothing;
- start-up: what the operator meant is in force, also after `setNewBuflen`;
- run states: a switch always returns to a working state, on time, in the mode
  asked for, with an envelope that stays in bounds;
- squelch: never a step from silence to signal or back;
- chains: what is heard is made of consecutive samples, none lost, repeated or
  left over from before; every filter is the one its name says;
- metering, spectrum: a packet shows what its label asked for; a snapshot shows
  samples in the order they came;
- resampler: how the signal is cut into blocks makes no difference;
- iambic keyer: an element once begun is whole, the next waits for the space
  after it, a tap during an element has its turn, nothing is sent unasked;
- keyer threads and tones: the tone generator is set up by one thread while no
  other uses it, every tone ends at level zero, open keys fall silent;
- keyers with a transmitter: no tone with the transmitter off, program and
  transmitter agree, nobody waits for an answer that will not come;
- keyboard keyer: what is typed is played, whole, in order, with its spaces.

## 2. The modules

| module | models | proofs |
|---|---|---|
| `SampleQueue` | what a ring promises: a bounded queue (abstract) | |
| `RingOps` | the pointer arithmetic of `ringb.c` | |
| `RingBuffer` | both sides of a ring, one copied sample per step | `PiecesProofs`, with the refinement of `SampleQueue` |
| `AudioEngine` | callback, DSP thread and the updates that touch the rings | `AudioEngineProofs` |
| `Control` | the five threads, `upd.sem`, the command buffer, shutdown | `ControlProofs` |
| `Commands` | `do_update`, redirects, the replay file, `setNewBuflen` | `CommandsProofs` |
| `Settings` | the other commands of the table: what they store, refuse, install and tell | `ControlProofs` |
| `Startup` | where each value comes from at the start and at `setNewBuflen` | `PiecesProofs` |
| `RunState` | run states and the receive/transmit switch, test signals | `PiecesProofs` |
| `Squelch` | the squelches block by block | `ChainProofs` |
| `Blocks` | the stages that remember samples, as operators on a block | `ChainProofs` |
| `Receiver` | `Blocks` and `Squelch` in the chains of `sdr.c`, with the spectrum's ring | `ChainProofs` |
| `Meters` | what is measured, snapshots, packets | `PiecesProofs` |
| `FilterDesign` | the constructors of `filter.c` and the windows of `window.c` | `ChainProofs` |
| `Resampler` | the polyphase resampler | `PiecesProofs` |
| `Shaping` | wave shaper and compander, and their tables | `PiecesProofs` |
| `SpotTone` | the spotting tone | `PiecesProofs` |
| `KeyerLogic` | `klogic`: two paddles into dits and dahs | `KeyerProofs` |
| `KeyerThreads` | the keyer's four threads and the envelope of `cwtones.c` | `KeyerProofs` |
| `SoftRock` | the iambic keyer for a remote transmitter, over the real `KeyerLogic` | `SoftRockProofs` |
| `KeyboardKeyer` | both keyboard keyers | `KeyboardKeyerProofs` |
| `MC*` | constants and choices of inputs, for TLC | |
| `MCPieces` | eight parts that share nothing, in one run | |

How they compose. `RingBuffer` implements `SampleQueue`: `Visible`, the samples
between the published pointers, is the queue, and every published segment is one
`Put` or `Take` (`ImplementsQueue`). `AudioEngine` builds on that: its rings are
such queues. `Control` says when a command or a block may run at all, which is
why a command is one step in `Commands`, `Settings`, `Meters` and `Receiver`,
and why commands fall between blocks there, in `RunState`, `SpotTone` and
`Shaping`. `Receiver` extends `Blocks` and `Squelch` and calls them in the order
of `do_rx_pre` ... `do_tx_post`. `SoftRock` instantiates `KeyerLogic` and keeps
its structure; `KeyerThreads` has the sound of the same keyer.

**RingBuffer.** `ringb_write`, `ringb_read` and `ringb_peek` look at the space
once, plan two segments and copy; the pointer is published after each segment
(`WriteSegment`, `ReadSegment`), so the other side sees half a transfer. A
transfer through `ringb_get_*_vector` is published once, by the advance
(`WriteReturn`, `ReadReturn`). Samples carry their number in the stream. The
memory is sequentially consistent, which the code takes for granted (it has no
barriers). The byte ring and the float ring are the same text twice and are
modelled once.

**AudioEngine.** One step is one ring call, with two exceptions: the two output
reads of the callback are one step, and so are the calls by which its restart
empties the input rings and fills in the offset. The output rings are restarted
one after the other, right before left (`RestartOutputRight`,
`RestartOutputLeft`; `doin` is cleared after the second, as in the code); a
block put between the two leaves them apart until the next restart, which
`torn` records. A sample is
its capture time modulo `Period`, so that a shift between left and right shows;
of an output ring only the fill is kept. `torn` is not state of the program: it
records which of the disturbances that the code does not guard against have
happened since the last restart, so that the properties can say exactly when
they hold. What the two pointers of a ring do when it is reset under a
running transfer is not modelled; such behaviours are marked in `torn`.

**Control.** A command is an id and a kind. `split` leaves pointers into
`parm.buff`, so a handler sees the words that are in the buffer when it runs
(`thunk` is the handler that was looked up, `buff` the words, `got` what the
thread was called with). A lost datagram is one that never arrives. The
realtime callback and the sample data are left out: the samples thread may or
may not find a block. Each measuring thread has one label. `crossed` is not
state of the program: it records that the command whose answer is in progress
shared the buffer with a line of the rcfile, which is the one case in which
`AnswersOwn` promises nothing.

**Commands.** A command is one step, a replay one step per line. Every command
may be recorded, `setNewBuflen` too: a replay that meets it starts over
(`NestedBuflen`). Of the many
per-receiver settings `setSquelchSt` stands for all, since here they differ only
in the field they write. `wild` marks a handler run with `RL` out of range,
whose effect C does not define. Arguments include one receiver too many.

**Settings.** A handler is an operator from the radio, the receiver it is for
and its arguments to the new radio and the number it returns. Handlers that only
store are rows of tables (which field, which conversion); the others (filters,
modes, oscillators, AGC, equalisers, compander, pan and gain, spectrum, test
signals) are operators with the guards and early returns of the code, also
where they leave something half done. A computed vector is the record of what it
was made from. `history`, the lines so far, is not in the code. What the code stores unconverted, clamps, truncates or
tells with another factor is in the conversion, never taken as the identity.
`LinesAssumption` says what lines there are: commands of the table, with numbers,
and as many of them as the handler reads before it looks how many it has been
given (most handlers of one setting read `p[0]` without counting; what such a
line does when the word is missing C does not define). `SpeaksTo` says whom a
line is for, as the handlers' comments have it; a number that names neither side
is the receiver for filters, modes and oscillators, and the transmitter for the
compander (`default:` at `update.c:332` and `:2270`). `f ++ g` and `Joined` stand for TLC's `@@`, which
the provers know nothing of.

**Startup.** A value is where it came from: default, environment, its place on
the command line, or the number of the `setNewBuflen` that gave it. `loc` is
what is collected, and what `setup` and `setNewBuflen` make of it is `in force`.

**RunState.** One step per sample of the envelope, its value in units of the
increment, commands between blocks. `setRunState(RUN_SWCH)` is left out, as the
comment at `sdr-main.c:367` asks of the callers. A test signal is one value per
generator.

**Squelch.** Of a block its loudness at both ends is kept. Which receivers are
below their threshold is free in each block.

**Blocks, Receiver.** A sample is the set of the ages of the input samples it
was made of; gains and coefficients, which weigh samples but do not choose them,
are left out, as are stages that take one sample at a time. So each delay line,
overlap and ring index of the blanker, `ovsv.c`, `dttspagc.c`, `lmadf.c`,
`graphiceq.c` and `spectrum.c` is there, and what a sample ought to be made of
(`Meant`) is written down independently of them, stage by stage, as a sum of
delays. `early` says where the coefficients lie in their transform: one sample
early in every filter and in the equalisers of `new_EQ` and `setGrphTXEQ3`, two
in those of `setGrphRXEQ3`, `setGrphRXEQ10` and `setGrphTXEQ10` (254 for 255,
`update.c:1160`, `:1223`, `:1388`). Settings change between blocks, any to any of
the set given, but that a receiver's `early` does not go back before
`setNewBuflen`, since no command of its equaliser writes at 255. Ages from
`Horizon` on are not told apart. `since` and `shown` are not in the code: how long
a channel has worked on whole blocks without a change, and how much the display
has taken since its own. A block of which the squelch or the blanker takes
something out is not whole, nor is the first one after a reset, and the count
begins anew: the properties say nothing of samples that reach back to it.

**Meters.** A measurement is the number of the block it was made of. Metering is
on; `posts` is the measuring thread's semaphore.

**FilterDesign.** A coefficient is `one + times * named value`; a design is the
vector as allocated and what the loops put in it, by index. `Shaping` keeps of a
table how many places it has and which are read; levels are counted in parts of
the full scale. A wave shaper given no points frees its table and keeps the
pointer, as `waveshape.c:76` does. `Resampler` numbers coefficients and input samples, and an output sample is the
set of its products. The mask of its ring is a remainder there: `nblock2` only
doubles, so `nold` is a power of two.

**SpotTone.** The envelope in parts of the full level, one value per sample,
with the fold of the sine shape past the full level.

**KeyerLogic.** One step is one tick: `read_iambic_key` with debounce 1, as
`main` sets it, and `klogic` in the order of its parts, each an operator on the
structure. Times are whole units instead of doubles, the lengths of an element
rounded up to them. A tick may be longer than a unit (`timed_delay` returns what
the clock reports when reads were missed). `now`, `sounded`, `silent`, `asked`,
`squeezed` and `extra` record the past for the properties and are not in the
code; `unit`, in the structure, records the speed an element was given.

**KeyerThreads.** A straight key, so that the keyer's logic is out of the way.
Every access to `poll_status`, `playing` and the generator's `stage` is a step
of its own; the rest of a thread's work between two of them is one step. The
envelope is counted in parts of the full level; its shape (the sine), the
oscillator and the gain are left out. The rings to JACK are left out too, and
so are `<quit>` and the end of the input, which cancel the threads.

**SoftRock.** The four threads that share one socket, one buffer and one length.
Of `send_command` every access to what is shared is a step of its own: writing
the command, `strlen` into `used`, `sendto` (which takes the length as it is
then), the comparison of what it returned with `used` as it is *now*, `select`
and `recvfrom`. So a command may go out as another thread's, cut or with a tail
(`Blasted`); a thread whose `used` was changed under it returns without waiting
for the answer that is to come (`Check`); a thread that saw an answer in `select`
may find it gone and block in `recvfrom`; and one that has tested `pSa` before
the port was closed crashes the program (`Crash`). The remote radio is external:
it answers each request in turn, perhaps too late, so that answers are taken by
the wrong thread or come when the port is closed. A datagram lost in the network
is not modelled; a thread that waits in `recvfrom` for it would wait for ever,
which the code does nothing about. The timer counts whenever it likes, also many
times in a tick, since a tick waits for a poll's answer. `astray`, `raced` and
`late` are not in the code: a keying command was lost, or not waited for, or its
answer taken by another thread; the key was pressed while the timer was letting
go; the timer counted twice in a tick while a closed reading was in the queue or
sounding.

**KeyboardKeyer.** `forSR` chooses the program. Reader and player hand one
segment over with two semaphores; frames go to the rings one side at a time, and
JACK reads between any two of them. `hang_time` is read, added to and stored in
separate steps. A sample is tone or silence; `since` and `gap` count silence for
`Spacing`. `send_command` is that of `SoftRock`, step for step, for the three
threads that use it, with the port opened by `main` after they have started;
the transmitter has what it was sent at once, and of the datagrams only their
number is kept, since nobody looks at what is in an answer. The inline commands
that change a number are one command, the change of speed.

## 3. What is checked

| run | instance | shows |
|---|---|---|
| `pieces` | the eight parts below, one moving in a behaviour | `InOrder`, `NoSlotRace`, `ImplementsQueue`, `SwitchHappens`, `AsDesigned`, `Resampled`, `SpotNoClick`, `PacketsHonest`, `InForce` |
| `audio` | rings of 3, periods of 1, blocks of 2, then 1 or 3, offset -1 or 1, one command | `OutputLevel`, `BlocksInPhase`, `NoLostWakeup`, `DspKeepsRunning` |
| `control` | the meter thread, one line of rcfile, two datagrams of four kinds | `AnswersOwn`, `EveryCommandAnswered`, `RequestsServed`, `RunningRadioStops` |
| `commands` | 2 receivers, 2 recorded lines, redirects to an existing and a missing receiver | `ActiveCount`, `PlainReplayRestores` |
| `settings` | 2 receivers, every sequence of three lines within each of 17 groups of commands that touch the same part | `TellsLatest`, `InstalledAsTold`, `RefusedChangesNothing` |
| `receiver` | one receiver and the transmitter, blocks of 4, three receptions and two transmissions, one of each with an equaliser of either placing, three commands or pulses | `InStep`, `SnapshotInOrder`, `RxSlews` |
| `keyer_logic` | dits of 3 and 4 units, ticks of 1 and 2, four sets of flags | `NothingUnasked`, `WholeElements`, `SpaceKept`, `RemembersTap` |
| `keyer_threads` | ticks of one sample, envelopes of 2 and 3 samples in two parts, one command, semaphores up to 1 | `WholeTonesFade`, `OpenKeySilences`, `HeldKeySounds`, `CommandsDone` |
| `softrock` | one paddle, straight or iambic, a queue of 2, a hang time of 3, one tone command, two datagrams under way | `TonesKeyed`, `NobodyHangs` |
| `keyboard` | both programs, buffers of 2 in rings of 6, two characters, spaces or commands, two speeds, hang time 0, two datagrams under way | `SoundArrives`, `PttAgrees`, `Spacing`, `PlayEnds` |
| `audio_skew`, `compander_idle` | as small as shows it | the disagreements of section 5 |

`pieces` puts eight parts that share no state into one run: `moving` says which
of them takes steps, and the others keep one initial state. So nothing is
explored twice and each part is explored as far as in a run of its own: the ring
(4 slots, requests up to 4, 9 samples), the run states (blocks of 2, envelopes
of 0 to 3 samples, 3 commands, two test signals), the filters (every kind, both
forms, lengths 0 to 8, edges on both sides of zero, at the limits and beyond),
the resampler (five ratios, blocks of 1 to 3 in any order, 20 samples), the
spotting tone (ramps of 0 to 4 samples, blocks of 2, four commands), the tables
of the transmitter (tables of 0, 1, 2 and 3 points, five commands), the meters (two
receivers, two blocks, two requests) and the start (five options, three
arguments, two resets).

Why the bounds are enough. *Ring*: nine samples wrap a ring of four twice and
put the pointers in every relation, with transfers that wrap at every place; the
proofs then cover every size. *Run states*: an envelope longer than a block, one
that ends in the middle of a block, and the empty one. *Filters*: lengths of
every remainder by four, the shortest included, since only parity and the middle
matter; *resampler*: ratios up, down, one, and without common measure; 20
samples take the ring of old samples round more than once and every phase comes
up at every place of a block. *Spotting tone*: ramps shorter than, equal to and
longer than a block. *Meters*: a second request and a second block are the least
with which a packet can be late or relabelled. *Start-up*: each source of a
value, two of them for the same option, and an option given twice.
*audio*: the ring holds three samples, so with blocks of two the callback
overruns, the output rings run both dry and full, and a change of length finds
the rings in every fill; `Period` 2 tells apart neighbouring shifts, which is
what one lost sample makes; one command suffices to interleave a restart or a
resize with every step of the other two threads, and longer histories differ
only in `torn`, which a restart clears. `MaxPosts` caps the semaphore at two: a
wake-up drains all full blocks, so further posts find nothing to do. *control*:
two datagrams are a command in flight and one that must not disturb its answer;
the spectrum thread behaves as the meter thread does. *commands*: two lines are
the least with which one line can disturb another. *settings*: three lines set a
value, disturb it and set it again; commands of different groups write disjoint
fields, so that longer mixtures show nothing new; arguments are distinct
numbers, so that two that change places are told apart, and the word for the side
is missing, `RX`, `TX` or neither. *receiver*: three events
switch a stage on, something else under it, and off again; blocks of four with
chunks of two and delay lines longer than a block give every overlap, and 26
ages outlast all memory together. *keyer_logic*: the speeds differ, so that a
change in the middle of an element shows; a tick of two is the longest the space
after a dit of three allows; the flags are those of `main` and three other sets
that between them turn each flag on and off; silence is counted to five, longer
than any space asked about. *keyer_threads*: a tick of one sample lets a tone of
any length span several ticks, so that every request of the key thread can fall
between any two samples and at either end of the envelope; envelopes of two and
three samples have steps of different height, which is what tells the end of the
rise from a step of the fall; a semaphore of one
still lets the key thread be a tick ahead of the sound thread. *softrock*: the
hang time exceeds the queue, as 10 times 100 ms exceed five ticks of 8 ms; one
poll ahead and one tone command bring all four threads into the socket. What
follows after a keying command has been lost, or while the timer is ahead of the
ticks, is cut off, since `TonesKeyed` says nothing of it (`NobodyHangs` does, and
is proved for what comes after, too); so are more than two
datagrams under way and more than two threads in `send_command` at once: two are
enough for a clash, a stolen answer and one that is left over, and the proofs
cover any number. The paddles move when the radio is about to look at them
(`MovesSeen`); moves at other times come to the same. *keyboard*: the rings
hold three buffers as in the code they hold several; a character of two elements
has every kind of segment; a hang time of 0 lets the timer go off at every step.
Behaviours are cut off after the loss of a keying command (`astray`), of which
`PttAgrees` says nothing. Making sound and talking to the transmitter touch
nothing in common, and are explored in turn (`InTurn`): sound is made while
nobody in `send_command` has a step to take.

Deadlock is not checked in `pieces`, whose parts stop at their bounds, in
`settings`, which stops after three lines, and in `control`, where the program
ends. Everywhere else TLC looks for it.

Fairness, and why the code has it. JACK keeps calling, and a thread that can
run does (weak fairness of `Callback`, `ProcessSamples`, `Main` and the other
threads). A call or an update that has begun ends. A thread that waits in
`sem_wait(upd)` is not passed over for ever although the samples thread posts
and retakes it at once (strong fairness of `Lock`, `Process`): POSIX does not
promise it, but the samples thread sleeps in `sem_wait(buf)` between blocks, so
the others get their turn in practice; without this assumption a command could
starve. `DspKeepsRunning` also assumes that the DSP thread is not for ever late
for the moments at which the rings hold a block (strong fairness of `WaitBuf`
and `CheckHold` with a block ready). Datagrams need not arrive, and in
`RingBuffer` the writer need not write. In `KeyerThreads` every thread runs when
it can; also, not every poll falls between the two instructions that read and
clear `poll_status`, where it would be lost, and not every `CWToneOff` falls
between the last sample of a tone and the test for its end, where it would
bring the tone back to `FALL` (strong fairness of `PollThread` and `ToneReturn`
outside these gaps): the gaps are of a few instructions, and the tick is a
millisecond. In `RunState` blocks keep coming (weak fairness of `SwitchSample`),
which is `DspKeepsRunning`. In `KeyboardKeyer` one of the threads that play what was
typed, `main` among them, goes on as long as one can; that anybody types, that
the timer counts, or that an answer comes, is not assumed. `PlayEnds` has a
condition: `main` sends one command, and if another thread takes its answer
between its `select` and its `recvfrom`, or closes the port under it, it waits for
ever, and the program does not end though all has been played.

Each property has a mutant in `PROJECT.json`, a plausible slip in the code that
the run finds: so every one of them depends on what the code does.

Stated in the modules and true, but not checked by a run of their own because
something stronger is: the type invariants, `OneAtATime` (`Control`, proved),
`ReturnsToWork`, `EnvelopeBounded`, `OnTime` (`RunState`, proved), `SetUpAlone`,
`EndsAtZero`, `LevelBounded` (`KeyerThreads`, proved), `EverythingDelivered`
(`RingBuffer`), `SlewMemory` (`Squelch`, proved) and `LookupsInside` (`Shaping`, with
`Have = Block`, proved).

## 4. What is proved

TLAPS checks the theorems below for every value of the constants that the
`ASSUME`s of the modules allow. Each invariant was first checked by TLC, as an
invariant of the component's run and of variants of it with larger constants.
`IInv` is the inductive one, `P` what a reader cares about; `P` alone is never
kept by every step, and the text says what had to be added.

**Ring buffers** (`PiecesProofs`, from `Size >= 2` alone).

- `RingTypeCorrect` (`TypeOK`), `FirstInFirstOut` (`InOrder`), `NoLockNeeded`
  (`NoSlotRace`). `RingInductive` proves the invariant behind them: the slots from
  `rptr` on, as many as are readable or claimed by the write in progress, hold
  consecutive sample numbers, and the counts of both sides match the pointers.
  It needs the half-finished transfers of both sides in it, because each
  publishes in the middle of one. `Size` is a power of two in the code, where
  `& mask` is a modulus; the proofs need only that a position is taken down by
  `Size` at most once.
- `RingIsQueue` (`ImplementsQueue`): the ring refines `SampleQueue`. Under the
  invariant the visible queue is fixed by two numbers, how many samples are
  readable and how many were published to the reader's side, since the samples
  are consecutive. So a published write segment appends the next numbers (a
  `Put`), a published read segment drops the oldest (a `Take`), and every other
  step changes neither number (a stutter).

**Audio engine** (`AudioEngineProofs`).

- `TypeCorrect`, `OutputStaysLevel` (`OutputLevel`) and `WakeupKept`
  (`NoLostWakeup`). `LevelInv` adds what holds inside `puthold`: between its two
  writes the left ring is one block ahead, and before them the left ring, which
  alone was asked, has room for the block; and between the restarts of right and
  left the right one holds a period, and a block half put is marked. `LengthInv` adds that a block is never
  empty, also after `setNewBuflen`; an empty one would be ready for ever.
- `ChannelsInPhase` (`BlocksInPhase`): a block that reaches the DSP has its two
  channels as far apart as the offset in effect says. `PhaseInv` follows the two
  streams (what is left of a block half read, and the ring behind it): how much
  longer one is than the other, in every place of the callback (`ApartInv`), that
  the samples at one index belong together (`TogetherInv`), and, while samples
  may still be stored, that each is as old as the number of samples after it says
  (`DatedInv`), all with exceptions for the cases that `torn` names. The
  hypothesis `OffsetsFit`, that no offset is longer than the rings, is needed: a
  longer one is cut to the ring without a word when the rings are restarted, and
  with an offset of 5 and rings of 3 TLC refutes the property. The code has no
  such test; `OffsetsFit` leaves out only offsets that the code does not carry
  out, and the constants of `audio` satisfy it.

**Control threads** (`ControlProofs`, any number of datagrams and rcfile lines).

- `WorkIsSerial` (`OneAtATime`): at most one thread at a time works on the
  radio. `ExclusionInv` adds that nobody is inside while `upd.sem` is one, and
  that nobody is before `main` has posted it for the first time; where
  `setFinished` or a cancellation leaves the section without posting, the value
  stays at zero.
- `RepliesMatch` (`AnswersOwn`) and `RunsItsDatagram`: unless an rcfile line
  shared the buffer, a datagram's handler runs with its own words, and the
  answer sent is its own. The invariant says what the buffer, the looked-up
  handler and `resp` hold at each place of the update thread.
- `TypeCorrect`.

**Commands** (`CommandsProofs`): `CountTrue` (`ActiveCount`), for any number of
receivers and any commands, redirects and replay file. What every step keeps is
a true count in a radio whose listening receiver may be any number: the type
invariant of `Commands` is too strong for that (a skipped redirect can leave a
wrong number behind), which is why `Consistent` does not include it.

`PlainFilesRestore` (`PlainReplayRestores`), for a file of any length that
redirects no command to an existing receiver. `Played(log)[n]` is the radio after
the first `n` lines on a fresh workspace, and `ReplayInv` says that a replay at
line `pos` has made `Played(log)[pos - 1]`; when it is over, that is `Rebuilt`.
That the recursive functions say what they say at each line is shown by induction
(below).

**Settings** (`ControlProofs`, any number of receivers, any sessions, lines and
arguments). `AllTold` is what every handler keeps: each channel's transforms are
those of its coefficients (a receiver's normalised), the coefficients those of
the band it tells, its curve that of the equaliser's parameters unless plans are
measured, and the spectrum's window and mask follow the polyphase flag.
`InstalledAsTold` alone is not kept: `wintype` must not be the window that the
polyphase switch installs, and the radio must have its parts. `Fair` adds that a
return other than 0 leaves the radio alone; `RunFair` shows it of every command
of the table but `setSpectrumType`: the rows because none of them names a field
of a filter or an equaliser (`RowsClear`), the others handler by handler.
`BandMade` is where `BadBand` and the constructor meet: a band that passes the
one is never refused by the other.

- `ToldIsInstalled` (`InstalledAsTold`), when plans are estimated (`~Measure`).
  Where they are measured, FFTW's planner may write over the curve that
  `setGrphRXEQ` and `setGrphTXEQ` have filled in before they ask for the plan, so
  the hypothesis is needed; without it the rest of `AllTold` still holds.
- `RefusalIsClean` (`RefusedChangesNothing`), measured or not.
- `LatestIsTold` (`TellsLatest`), for any number of receivers and any lines, also
  lines of different groups mixed, which the run does not try. `ToRx`, `ToTx` and
  `ToUni` say what an accepted line puts in the receiver it is for, in the
  transmitter and in what they share, apart from fields that no question of
  `About` reads (`Unasked`); `LineDoes` proves of every handler that it puts
  that there and nothing anywhere else, and nothing at all when it refuses.
  `RxWrites`, `TxWrites` and `UniWrites` are the same as triples of command, field
  and word (`LineSays`); `AboutPlaces` compares them, row by row of the tables,
  with what `About` names for each number of an answer: the commands that it names
  are exactly those that write the field the number is read from. `LatestInv` then
  carries the latest line that set each number along the history (`LastSet`): a
  new line either sets the number or leaves the field alone (`LineAnswers`), and
  the property's search for the last line finds that one.

**Squelch** (`ChainProofs`): `MemoryKept` (`SlewMemory`) and, from it, the
action property `ReceiversSlew` (`RxSlews`), for any number of receivers.

**Receive and transmit chains** (`ChainProofs`), for any number of receivers, any
settings, delay lines and rings, and any commands between the blocks. What is
assumed is `BlocksAssumption` and `ReceiverAssumption`: a block is a whole number of
the chunks of the equaliser and of the block-wise adaptive filters, a chunk of
the equaliser more than one sample, and the accumulator of the spectrum a whole
number of blocks. With the sizes that DttSP
is built for both hold; for shorter blocks the code overruns its buffers
(section 5).

- `StaysInStep` (`InStep`) and `ShownInOrder` (`SnapshotInOrder`). What comes out is what
  the filters ask for (`Fir`), and that is not quite what their designs mean: the
  coefficients lie one or two samples early, so that the last one or two samples of
  a chunk take some from two chunks before. A `Signal` gives for
  the sample of age `a` the set of ages it is made of, and a block later all of it
  is a block older. Each point of a chain has its signal (`SigClean`, `SigFiltered`
  and so on), and each stage is a lemma: if its input carries the signal before
  it for the last `n` samples (`BlockCarries`), and what it remembers does
  (`HalfCarries` for the half that overlap-save keeps, `RingCarries` for a delay
  line, wherever its index stands), then its output carries the signal behind it
  and its memory stays good, for `n` and a block more. Of the samples before those
  `n` nothing is known, and nothing needs to be: a sample counts only if all it is
  made of is younger. `ChannelsOK` says this of every channel with `n = since[c]`,
  which each command that touches the channel, each lost, squelched or blanked
  block and each reset sets to 0, so that there only the shape of the memory has
  to be kept; that is why a setting may be switched on in the middle of anything.
  `DisplayOK` is the same of the accumulator, which is read from `fill` on, with
  `OneShown`: while samples of one channel are being shown, the channels that
  stand still cannot be the source. `ChainInv` is both with the squelches'
  invariant.
- `ChainSquelches`: a refinement. Each step of the chains is, of the squelches'
  variables, a step of `Squelch` or a stutter. So `ReceiversSlew` holds of the
  chains: `ChainSlews` (`RxSlews`).

The first attempt at `StaysInStep` failed for a good reason: `Receiver` had
excused blanked samples by the age of the pulse alone. But the blanker counts
blocks that pass through it, and a receiver that stands still during a
transmission keeps its count; after it, samples are blanked long after the pulse
itself is forgotten. With three events TLC could not reach this, with four it
did. `since` now counts whole blocks only.

**Filter designs** (`ChainProofs`): `MadeAsMeant` (`AsDesigned`), for every
length, edges and sampling rate. `PassTaps` and `StopTaps` say what coefficient
each constructor puts at each index (`Kept`; `Blocked` is the same after the
second loop of a stop), `Refusals` which requests it answers with 0, and that
these are the same for a stop and its pass. `Complement` and `FormsAgree` then
compare one coefficient with another. A mirrored window reads the same from both
ends because the steps that write an index are those that write its mirror image
(`WindowShape`). Only `DesignAssumption` is used.

**Metering, start-up, run states, tables, resampler, spotting tone**
(`PiecesProofs`).

- `MetersHonest` (`PacketsHonest`): what was measured last, what the snapshot
  holds and what the thread has packed are related to the label, for any number
  of receivers, blocks and requests.
- `MeantIsUsed` (`InForce`): for any command line and environment. The invariant
  speaks of what is collected before `setup` as well as of what is in force
  after it, and of both after any number of `setNewBuflen`.
- `SwitchBounded` (`ReturnsToWork` and `EnvelopeBounded`) and `SwitchOnTime`
  (`OnTime`): from where the counter and the envelope are in each part of a
  switch, also when a command changes the lengths in the middle of one.
- `TablesInside` (`LookupsInside`): for tables of any number of points, none
  included, and any level. Of an odd number no place beside the table is read;
  of an even number at most the one behind it; of none the first two places of
  what was freed. "Original table should have odd length" (`waveshape.c:41`) is
  what the code expects and nothing enforces. The lemma `DivideInside` is that
  an index computed by division stays below the table's length.
- `BlocksAreSeamless` (`Resampled`): for any ratio, any number of coefficients
  and any way of cutting the input into blocks. `Fits` derives the whole state of
  the resampler from two numbers, how many samples it was fed and how many it
  has made: the phase is the difference between the two in units of the faster
  rate, the place in the ring a remainder, and the ring holds the last `nold`
  samples, each in the place of its number. `RingIsLargeEnough` shows of
  `nblock2` that these are at least as many as there are coefficients; so
  `OneSum`, which follows the loop over `k` back through the ring, finds what
  `Reference` names. `Ceiling` counts the output samples of one input sample.
- `SpotIsSmooth` (`SpotNoClick`): for any block, any lengths of rise and fall
  (`Full` is a multiple of the number of steps of each, as in `KeyerThreads`)
  and any commands between blocks. `Shaped` and `Whole` give the level as a function of
  the stage and its count; `Turn` shows that one sample keeps this and takes no
  more than a step, `BlockHeard` the same of the block.

**Iambic keyer, logic** (`KeyerProofs`): `TypeCorrect` (`TypeOK`), `ElementsWhole`
(`WholeElements`), `ElementsApart` (`SpaceKept`) and `OnlyWhatWasAsked`
(`NothingUnasked`), for all speeds, weights, flags and ticks. The assumption is
that a tick is no longer than the space between two dits; without it a missed
tick can swallow a space. The invariant relates the times to each other (while
an element sounds, `elem` is `beep` and the space), and to the delays, which
only `autospace.khar` starts; `Counted` is the same in the middle of `klogic`,
after the countdown, and there is a lemma for each part.

**Iambic keyer, threads** (`KeyerProofs`, for any block size, any number of
commands and any lengths of the envelope; `Full` is a multiple of the number of
steps of each, which is a choice of unit).

- `GeneratorShared` (`SetUpAlone`): `CWToneOn` and `CWTone` are never in the
  generator together. `TurnInv` is what the threads gain from testing and
  writing `playing` without a lock: a tone is in the making only while it is
  true, one is set up only while it is false.
- `TonesFadeWhole` (`WholeTonesFade`), `SilentAtZero` (`EndsAtZero`) and
  `NeverTooLoud` (`LevelBounded`). `LevelInv` gives the level as a function of
  the counts of rise and fall in each stage, `StageInv` says how far out of date
  the stage may be that the sound thread has read: the key thread may have asked
  for the fall since, and no more. A complete rise ends at the full level or a
  step beyond it (`FullHeight`), whichever way it is left.
- `ThreadsTypeCorrect`.

`WholeTonesFade` allows a step of the rise or of the fall at every sample, and
needs both: when the two come from different settings, the clamp at the end of
the rise is a step of the rise, which may be the larger. With envelopes of equal
steps TLC would not see the difference; the run has envelopes of two heights.

**Keyboard keyer** (`KeyboardKeyerProofs`, for any text, speeds, buffer size and
hang time; the rings hold more than two buffers, which `RING_SIZE` is many times
over).

- `PttKept` (`PttAgrees`): reader and timer test and set `PTT_state` without a
  lock, and yet never key and release at once, because the reader keys only
  while the state is off and the timer lets go only while it is on, and each
  changes the state after its command. `PttInv` adds what was sent of the
  command in progress.
- `AllIsHeard` (`SoundArrives`). `SoundInv`: one token goes round between reader
  and player (`TokenInv`), and what is in the left ring is fixed by how much of `zout`
  has been written and how many buffers JACK has taken since (`FillInv`); so there
  is always room. `TailInv` counts the silence after
  the last tone through every segment still to come; it is kept only if a
  character space lasts two buffers (`SlowEnough`), which is the condition
  `TailIsSilent` states.
- `SpacesKept` (`Spacing`): the space in front of an element is the same number
  wherever it is by then: in the segment in front, in the morsel handed over, in
  the samples still to make, or already played (`GapInv`). `OwedInv` is the same
  for a space still owed to a character that has not been typed, which depends
  on the speed and on whether a blank came before.

**Keyer for a remote transmitter** (`SoftRockProofs`, for any length of
`key_FIFO`, any hang time longer than it, and whatever `klogic` makes of the
paddles, which the proofs never look at).

- `NobodyWaitsInVain` (`NobodyHangs`): there are at least as many datagrams under
  way as threads that wait. `Answered` counts with the waiting those who have sent
  and not yet compared (`AtWait`): only `sendto` adds one to them, and a datagram
  with it; only an answer that is taken removes a datagram, and its thread with
  it. Who returns early, from `Check`, leaves a datagram over, so that there may
  be more, and no equality holds.
- `ToneOnlyKeyed` (`TonesKeyed`). It takes three invariants that rest on each
  other. `HangInv`: while a reading that closed the key is still in the queue,
  the timer has counted at most once for each tick since it was made, unless it
  ran ahead of the ticks (`late`); so with a threshold longer than the queue the
  timer cannot let go while a tone is due, unless a press met it already letting
  go. Where ticks wait for slow answers the timer does let go of a tone, and TLC
  finds it (without `late` in `TonesKeyed`): that is what the code does. `PttInv`: the key thread keys only
  while `PTT_state` is off and the timer lets go only while it is on, so that
  their commands are never in progress together. `OwnInv` and `OnInv`: of the
  key thread at most one datagram is under way, there or back, and from its
  sending until the timer's next command the transmitter is on or will be, with
  no command to let go behind it, whoever's thread sends what is in the shared
  buffer. `EndInv` says what is left of this in the socket when `<quit>` ends
  the threads.

**Only model-checked.** All liveness (`DspKeepsRunning`, `EveryCommandAnswered`,
`RequestsServed`, `RunningRadioStops`, `SwitchHappens`, `RemembersTap`, `OpenKeySilences`, `HeldKeySounds`, `CommandsDone`, `PlayEnds`):
such proofs need ENABLED and fairness, which the prover does not handle.
Every safety property of the passing runs, invariant or action property, is
proved.

**Induction.** The induction theorems of the library take an operator as a
parameter, which the provers cannot instantiate, but its theorem that a
well-founded relation has minimal elements (`WFMin`) does not: with it a set of
numbers has a least one (`LeastNumber`), and a set with 0 and every successor has
all (`Induction`). That is enough to show that a function defined by recursion over
the lines of a file, the samples of a block or a bisected number exists
(`Recursion`, `DoublesExist`) and what it is at each place. The two modules that
need this have these lemmas each for itself. No module uses a RECURSIVE operator.

## 5. Where code and text disagree

Two are runs that TLC refutes; `PROJECT.json` quotes the text.

1. `audio_skew`: the callback checks `ring.i.l` for room twice and `ring.i.r`
   never.
2. `compander_idle`: `WSCompand` works on `CXBhave` samples of a buffer header
   of its own (`wscompand.c:77`), which `newCXB` leaves at 0 (`bufvec.c:214`);
   only the receiver's AGC is ever given a number (`sdr.c:905`). The wave
   shaper, the DC blocker and the transmitter's leveler have such headers too.

Others are stated in the modules, and TLC refutes them with the constants below
(those of the run named but for what is said), but they have no run of their
own:

| property | constants | what happens |
|---|---|---|
| `OffsetInEffect` (`AudioEngine`) | `audio_skew`, `Offsets = {1}`, `MaxCommands = 1`, `Period = 1` | `setRingBufferOffset` between the callback's reading `offs` and its `doin = FALSE` is lost (`sdr-main.c:501`), though `offs` is "to compensate for L/R ADC lags" |
| `UpdatesSynchronous` (`AudioEngine`) | `audio_skew`, `BufLens = {1}`, `MaxCommands = 1` | `reset_for_buflen` frees the hold buffers while `gethold` or `puthold` copies |
| `RestartAlone` (`AudioEngine`) | `audio_skew` | the callback resets the input rings while the DSP thread reads them, which `ringb.h` forbids |
| `DspKeepsRunning` (`AudioEngine`) | `audio`, `BufLens = {4}` | a block longer than the rings, which keep their first size, starves the DSP |
| `ShutdownCompletes` (`Control`) | `control`, `Kinds = {"finished"}` | `setFinished` while the rcfile is read ends its thread with the semaphore taken, and `main` waits for it for ever, though "final shutdown always starts in update thread, so join it first" (`sdr-main.c:618`) |
| `RunsWhatItGot` (`Control`) | `control` | `main` and the update thread share `parm.buff`: a handler runs with the words of another command |
| `ReplayRestores` (`Commands`) | `commands` | `switcheroo` is set once per replay, not once per line (`update.c:444`), so a "temporary redirect of a command to another RX" (`update.c:435`) outlives its command |
| `~wild` (`Commands`) | `commands`, `MaxLog = 3` | a skipped redirect leaves its number in `tmpRL` for the lines after a good one |
| `TxSlews` (`Squelch`) | `NRx = 1` | `do_tx_pre` asks for `!squelch.set` (`sdr.c:1196`), which `should_do_tx_squelch` does not clear: the transmitter's squelch opens and closes without a slew |
| `GoodSamples` (`Receiver`) | `receiver` | `ovsv.c:245` keeps one sample more of the circular convolution than is good, though "Samples in right half are circular artifacts and are ignored" (`ovsv.c:186`) |
| `MidElement` (`KeyerLogic`) | `keyer_logic` | a squeeze that begins while nothing plays finds `midl` at 0 and counts as "paddles squeezed after mid-element" (`iambic-keyer.c:109`) of the element it starts |
| `TonesFade` (`KeyerThreads`) | `keyer_threads` | a key opened during the rise takes the level below zero and then up in a jump (`cwtones.c:81`), though the trigger is "asynchronous" |
| `OneSetting` (`KeyerThreads`) | `keyer_threads` | a command takes a post of an earlier silence, and the rise and the fall of a tone come from two settings, though the update thread means to "wait until changes are safe" (`iambic-keyer.c:761`) |
| `HeldKeyHeld` (`KeyerThreads`) | `keyer_threads` | a poll between reading and clearing `poll_status` is lost, and a held key is open for a tick |

Findings made while modelling that are told in the modules' comments or here,
without a property (the model does what the code does):

- *Settings*. `getBlkANF` answers with the noise reducer's delay
  (`update.c:2966`). `getRXIQ` and `getTXIQ` tell a gain of the other sign than
  was set. `setRXAGCLimit` sets `gain.top`. `getTEST` tells frequencies that
  nobody stores. `setSpectrumType` resets type, scale and receiver before it
  refuses a fourth argument. `setTXFiltCoefs` normalises the receiver's
  transform. A default mode of SAM gets the rectifier of AM. The edges of a band
  and the type of the window are unset until the first command.
- *Commands*. A recorded `setNewBuflen` replays itself for ever: the replay starts
  over, one call deeper, and meets the same line (`update.c:2570`).
- *Start-up*. The companders get the length given at the start, not that of the
  new buffers; the size is checked for being a power of two by `setNewBuflen`
  only; `setNewBuflen` returns to the mode of the start.
- *Run states*. A switch asked for during a switch starts again at full
  loudness. `mode.trx` changes at the end of the rise, so that the whole
  envelope is applied to the old mode and the new one starts at full level; the
  sources do not say which is meant. `setTEST` accepts CHIRP, which is silence.
- *Chains*. `reset_OvSv` at tick 0 wipes the block that is already in `buf.i`;
  the transmitter's leveler never processes a sample; filters keep old samples
  over a switch between receive and transmit; `setRXAGCAttack` does not mask its
  index; `blms` works in 128s and the equaliser in 256s and overrun shorter
  blocks. With blocks below 48 samples the squelch's slew has a negative length
  (`sdr.c:291`). A spotting tone turned off while it rises goes below zero.
  Equaliser coefficients are put at 255 by `new_EQ` and `setGrphTXEQ3`, at 254 by
  the three other commands: their output is a sample earlier still, and the last
  two samples of each chunk are mixed with samples of two chunks before.
- *Audio engine*. The two output rings are restarted one after the other: a block
  put between the two, or half put when they begin, leaves left and right apart
  until the next restart (`sdr-main.c:498`).
- *Filters*. The middle of a filter is off by one for lengths of 4k + 3;
  Blackman-Harris and Nuttall windows are shifted by one; `newFIR_Hilbert_COMPLEX`
  gives zeros; a wave shaper's table of an even length is read one place too
  far, and a command with no points frees the table and keeps the pointer.
- *Meters, spectrum*. The average equals the current value, since `meter.rx.mode`
  is never set. A second request before the first is sent replaces its snapshot,
  and the packet goes out twice under the later label. The display stands still,
  with advancing stamps, when its receiver is off.
- *Keyers*. An answer taken by another thread is believed; a failed read leaves
  the keys as they were; a timed-out answer closes the port for good, under the
  other threads, one of which may then crash in `send_command` or hang in
  `recvfrom`; the length of a command is shared, so that one may be sent cut, or
  its answer not waited for; the transmitter is let go under a tone when ticks
  wait for slow answers; `main` of the keyboard keyer for SR may wait for ever for
  the answer to its one command, and the program not end; `<quit>`
  and the end of the text can leave the transmitter keyed; the callback of
  `iambic-keyer.c` resets rings that another thread writes to
  (`iambic-keyer.c:837`), and rounds 46.9 samples a tick down
  (`iambic-keyer.c:147`). The keyboard keyer for SR starts JACK before it
  initialises its semaphores.

## 6. Plan

Done: the ring and its proofs; the audio engine; the control threads; commands
and replay with the count's proof; run states; squelch with its proofs; the
iambic keyer's logic with its proofs, and its threads; then settings, start-up,
the chains with their spectrum, meters, filter designs, resampler, tables and
spotting tone; the keyboard keyers and the keyer for a remote transmitter.

Then, proofs: the refinement of the queue, the audio engine, the control threads,
metering, start-up, run states, tables, settings, the filter designs, the
keyboard keyer, the keyer for a remote transmitter, the threads of the iambic
keyer, the receive and transmit chains with their display, and last what loops
make of a replay file, a block of samples and a tone.

Next, models: `RingBuffer` with reset, clear and restart against a running
transfer, and the audio engine's behaviours after it; the rings and callback of
the iambic keyers; the handlers left out of `Settings` (`reqDump`).

## 7. Not modelled

- What a stage computes from its samples: gains, coefficients and adaptation,
  demodulators and their loops, oscillators, IQ correction, SDROM, the noise
  generators, the sum of the receivers' outputs. It is real arithmetic on one
  block, without a state machine that commands could upset beyond those above.
- `hilbert.c`, `halfband.c`, `filterbank.c`, `delay.c` and `stkstuff.c`, which
  the library's list of objects leaves out, and `iambic-keyer-e.c`, which does
  not compile.
- The rings between the iambic keyers and JACK, their callback, and rates (a
  tick that is not a whole number of samples).
- `reqDump` and commands that read the clock or ids of the machine.
- Port clients and scripts: they keep no state; what matters of them to the
  radio, datagrams that do not arrive, is in `Control`.
- Allocation, wisdom files, memory accounting, logging and the printing of
  numbers. `setSNDSResetSize` sets a field nobody reads and asks for the same
  restart as `setRingBufferReset`.
