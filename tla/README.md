# Specifications of e3dcset

`e3dcset` is a command line client for E3/DC home power stations. One run connects to the
station over TCP, logs in, sends a request built from the command line, prints the answers and
ends; with `-m` it goes on to fetch the cell blocks (DCBs) of a battery one by one, with `-w` it
repeats a read until Ctrl+C. Everything happens in one thread; the state is in globals
(`g_ctx`, the receive buffer, the cipher's IVs) that a request sets and an answer, perhaps a late
one, reads and changes. That is what these specifications are about.

Paths below are relative to the repository (`src/...` stands for `src/src/...` of this checkout).

## 1. Inventory

| Component | State | Operations | Hard behaviour | Correct when |
|---|---|---|---|---|
| Session loop: `mainLoop`, `receiveLoop`, `createRequestExample`, `handleResponseValue` (`rscp_handler.cpp`) | `counter`, `bStopExecution`, `iAuthenticated`, `g_ctx` | log in, send the request, receive, handle the values, next round, stop | answers that are late, lost, errors or empty; a timeout sends again; Ctrl+C at any point; connection loss | a command goes out once; every run ends; values that came are found |
| Module dump (`-m`, in `handleResponseValue`) | `needMoreDCBRequests`, `currentDCBIndex`, `totalDCBs`, `isFirstModuleDumpRequest`, `dcbRequestRetries` | count seen, data seen, retry, skip, end | retries against late answers; `uint8_t` indices; errors in the middle of a container | the DCBs are taken in order, each once; every one is shown or warned of; a skip means it was asked for |
| Receive path: `receiveLoop`, `processReceiveBuffer`, `parseFrame` | static buffer, `iReceivedBytes`, `ucDecryptionIV` | make room, `recv`, decrypt, hand on a frame, shift the buffer | frames in pieces, several in one `recv`, a timeout inside a frame, the limit of the buffer | frames are handed on whole, in order, none held back, none refused |
| RSCP codec (`RscpProtocol.cpp`) | none (values, containers, frames) | `appendValue`, `createFrameAsBuffer`, `parseFrame`, `parseData` | sums of lengths in 16 bits; refused elements nobody notices; a checksum whose length has 16 bits | what is taken apart is what was put in; length, memory and elements agree |
| Command line (`e3dcset.cpp` `main`, `config.cpp` `checkArgumentsEarly`, `checkArguments`) | `g_ctx` | read an option, look up a tag, check, list | options that share a field, that override or exclude each other; numbers cut to their field | nothing beyond the limits is sent; a query changes nothing; what is sent is what was asked for |
| Requests (`createRequestExample`) | none | a container per part of the command | parts that meet in one frame | as above |
| History query (`history.cpp`, `getHistoryTypeConfig`) | none | start and length of a period | leap years, Sundays, the change of the clocks | the period asked for |
| JSON output (`output.cpp`, and where the handlers call it) | `g_jsonFirstField`, `g_jsonModuleDump` | open, add a field, add a DCB, close, print | depends on the order in which answers come, are late or fail | one object per line; each DCB once |
| Configuration file (`config.cpp` `readConfig`) | `e3dc_config` | read a file, let the environment override | widths and lengths; a field in two places | complete, or the program ends |
| Connection set-up (`SocketConnection.cpp`) | the socket | connect, timeouts | one attempt, no retry | - |
| Text output | - | print | - | - |
| Rijndael cipher (`AES.cpp`, third party), tag tables | - | - | - | - |

How they interact: `main` fills `g_ctx` and calls `mainLoop`. It builds a request
(`createRequestExample` reads `g_ctx` and sets the container flags in it), encrypts and sends it,
and calls `receiveLoop`, which cuts frames out of the byte stream and calls
`handleResponseValue` for every value of each frame. That prints, fills the JSON buffer and
changes `g_ctx`, from which `mainLoop` sees whether it is to go on. The only thing beside this one
thread is the SIGINT handler of the watch mode, which sets a flag.

## 2. Modules

| Module | What it is |
|---|---|
| `Command` | what a run is asked to do: the fields of `CommandContext` the session looks at, and which combinations are let through |
| `DumpCursor` | what the module dump promises: the DCBs one after the other |
| `Session` | one run of the program against the station, a frame being one message |
| `MCSession` | command lines and batteries for TLC |
| `SessionProofs`, `SessionInTimeProofs` | theorems about `Session`: whatever comes late, and with answers in time |
| `FrameQueue` | what the receive path promises: frames handed on whole and in order |
| `ReceivePath` | the buffer, the IV and the limits of `receiveLoop` over a stream of bytes |
| `MCReceivePath`, `ReceivePathProofs` | frame sizes and pieces for TLC; theorems and proofs |
| `RscpValue` | the codec: values with their lengths, containers, frames, built and taken apart |
| `Period` | the period of a history query, and what its words mean |
| `CommandLine` | from the options to the frames that are sent; uses `RscpValue`, `Period`, `Command` |
| `MCCommandLine` | options, tags, files, dates for TLC |
| `DataInduction` | induction over data, on sets and recursive functions, for the proofs |
| `RscpValueProofs`, `CommandLineProofs` | theorems about the codec and the command line |
| `RequestProofs` | theorems about what `CommandLine` sends, taken apart again |
| `JsonOutput` | what a run with `-j` prints: `Session`, with the output of its handlers |
| `MCJsonOutput` | command lines with `-j` for TLC |
| `JsonOutputProofs` | theorems about the lines printed with `-j` |

They compose along the program: `CommandLine` shows that main hands only those commands on that
`Session` assumes for its inputs (`Accepted` in `Command`); `ReceivePath` implements `FrameQueue`,
which is the queue `toClient` of `Session`; `JsonOutput` adds variables and output to each action of
`Session` and takes nothing from it.

### Session

`pc` is the place of the one thread: `send` (head of `mainLoop`), `recv` (in `receiveLoop`),
`values` (in `processReceiveBuffer`), `tail` (behind `receiveLoop`), `done` and `exit`. `cmd` holds
the fields of `g_ctx` the command line sets, `g_ctx` those the answers change; `ended` is
`bStopExecution` with its reason; `counter` is cut to 0 and 1, as the code only asks for `> 0`.

| Actions | Code |
|---|---|
| `StopOnInterrupt`, `SendAuthentication`, `SendCommand`, `SendFails` | `mainLoop` up to the send, with `createRequestExample` (`CommandRequest`, `FlagsOf`) |
| `ReceiveFrame`, `FrameHandled`, `ReceiveTimesOut`, `ReceiveFails`, `InterruptReceive` | `receiveLoop` as seen in whole frames. It may wait for a further frame if bytes of one have come |
| `Authenticated`, `Refused`, `PrintOnly`, `PviData`, `BatError`, `BatPlain`, `BatDcb`, `BatRetry`, `BatSkip`, `DcbInfoIgnored`, `DcbInfo` | the ways through `handleResponseValue`, one value each |
| `WatchPause`, `Finish`, `NextRound` | `mainLoop` behind `receiveLoop` |
| `Interrupt` | `watchSignalHandler` |
| `DeviceServes`, `DeviceFails`, `DeviceIgnores` | the station: external, as far as the handlers allow for it |

Inside `BAT_DATA` the elements come in the order count, data of the DCB, error element; the
`BAT_DATA` actions are whole handler calls, so the bookkeeping of retries at the end of the handler
is part of them. A DCB counts as received with its index (`rscp_handler.cpp:631`) and is shown only if fields
follow it and the index fits its `int8_t` (641, `Holds`): the fault `bare` is a station that sends the index alone.
`attempts`, `sent`, `shown`, `warned`, `blank` (the DCBs of this dump that were received and not shown), `jsonPrinted`,
`wrongNotFound` and `troubled` (a receive timed out, a request was dropped, or an answer was bad)
are history variables, read by no action.

### ReceivePath

Bytes are positions in the stream. `base` is the position of `vecDynamicBuffer[0]`, `ivEnd` that
behind the block saved in `ucDecryptionIV`; a block chain decrypts when the two agree and a frame
is read when it starts at `base`. `Expand`, `GiveUp`, `RoomEnough`, `Receive`, `TimesOut`,
`ConnectionFails` are the outer loop, `WaitsForMore`, `NoFrame`, `TakeFrame` the inner one, `Enter`
and `Leave` the call. Assumed of the cipher: `Decrypt` does not change its IV, a wrong IV or key
gives no RSCP magic. Assumed of the station: each frame is padded to whole blocks and chained to the
one before, and the values of a frame fill its data exactly. The memcpy that moves the rest of the
buffer to its front overlaps; the constant `OverlapGarbles` says whether the C library's memcpy may
garble it.

### RscpValue, Period

Operators, without state. A value is its tag, its length, a content that stands for its bytes and,
if it is a container, the places its elements were written to. `AppendValue` adds header and data in a
`uint16_t`, `AppendContainer` in a `uint32_t`, and both pass the sum to `Append16`, which refuses what
does not fit, as the overloads of `appendValue` do. `CreateFrameAsBuffer` has the length its checksum is
built over (a `uint16_t`), `ParseFrame` checks it the same way, and `ParseData` goes from element to element
by their lengths, and by its own test at the end. In `Period`, `dateToTimestamp` is in hours, with
`mktime` and `localtime` (external) as functions of a date, an hour and `tm_isdst`; below it stands what "day", "week",
"month" and "year" mean (`PeriodOf`), which the code nowhere says.

### CommandLine

`argv` is what `getopt_long` has returned so far; `g_ctx` the context, set at once by each
option (`ReadOption` with `SetOption`), so that of two options with one field the later one counts; `pc`
says where main is.

| Actions | Code |
|---|---|
| `ReadOption` | the loop over `getopt_long`, the ends inside of it (`EndsAtOnce`) |
| `ListTags`, `EndOfOptions`, `EndsWithUsage` | main behind the loop: `-l`, the lookup of `-r NAME`, `checkArgumentsEarly` |
| `readConfig`, `ConfigUnusable` | the file, the environment, the required fields |
| `checkArguments` | the limits |
| `connectToServer` | one attempt |
| `SendAuthentication`, `SendCommand`, `YearRefused`, `SendAgain` | `createRequestExample`, for the login, for the command, ended by `dateToTimestamp`, for a later round of a dump or a watch |

The number of an option is any integer, cut to the width of its field; a text is its length (a
credential) or a word. The reserve of `-E` is a float: an integer of Wh, or the constant `NaN`, which `atof` makes of
the word "nan" and no comparison refuses. `asOf`, the moment a request was built at, is a history variable.

### JsonOutput

Every action of `Session` with what it prints: the actions of `processReceiveBuffer` with the object that
`--info -j` puts around a frame, the handlers with theirs, `Finish` with the document of the dump. Standard
output is a sequence of tokens, of which `line` keeps the state of a reader that expects one JSON object per line;
`g_jsonModuleDump` is the buffer with the fields of the module and the DCBs. Some values get no object or field of
their own in spite of `-j`: the constant `Oddities` says which of these five kinds the values may be of (`OddityKinds`, with what
each prints, `Odd`), and the history variable `odd` that one was printed. `InJson` leaves out the commands for which a handler prints text whatever value comes, or two objects nest
(see "Divergences").

## 3. Runs

| Run | Expected | What it shows |
|---|---|---|
| `in_time` (`MCSessionInTime`) | pass | With answers in time, as errors, empty, without fields or not at all: `DumpComplete` (which says, too, when a dump ends without having been told of its DCBs), `NoWrongNotFound`, `LaterSkipMeansAsked` |
| `late` (`MCSessionLate`) | pass | With answers that come after the timeout, beside those to the next request: `TypeOK`, `DumpInRange`, `OnceRequestInRange`, `CommandSentOnce`, `WalksDcbsInOrder`, and the liveness properties `TerminatesAfterTrouble`, `InterruptEnds`, `WatchPolls` |
| `pieces` (`MCReceivePathPieces`) | pass | For every way to cut the stream: `TypeOK`, `InStep`, `NothingHeldBack`, `BufferFits`, `HandsOnInOrder`, `AllHandedOn` |
| `request` (`MCCommandLine`) | pass | Up to three options of every kind, in every order: `TypeOK`, `LimitsRespected`, `QueriesOnlyRead`, `SessionInputs`, `SaysWhatWasAsked`, `OneModuleAsked`, `LogsInCompletely`, `PeriodAsked` |
| `output` (`MCJsonOutput`) | pass | With `-j`, in time and late, with all values of `OddityKinds` (`OneObjectPerLine` is about what is printed before the first of them): `JsonTypeOK`, `OneObjectPerLine`, `DumpDocument` |
| `endless` | violation of `Terminates` | A station that answers every request for a DCB with an error is asked for ever: `max_retries` does not count errors (`rscp_handler.cpp:446`), although the comment at 852 says it prevents infinite loops |
| `skip_unasked` | violation of `SkipMeansAsked` | With `max_retries=1` the answer with the number of DCBs uses up the one attempt of DCB 0; the warning says "failed after 1 attempts" |
| `dump_hole` | violation of `DumpComplete` | The index in an answer is not compared: a late answer counts for the next DCB and the last one is missing without a warning |
| `watch_dump` | violation of `RequestInRange` | When the last DCB is skipped `isFirstModuleDumpRequest` is not put back; a watched dump asks for a DCB that does not exist from then on |
| `lost_login` | violation of `CommandWasSent` | When the answer to the login is lost, the login is repeated and the run ends, with status 0, without the command |
| `largest` | violation of `BufferSuffices` | A legal frame of more than 65536 bytes that has come but for its last block is refused as larger than the protocol allows |
| `overlap` | violation of `InStep` | Where memcpy does not copy upwards, the second of two frames received together is garbled |

### Bounds, and why they are enough

- `Commands`: one command line per way through the code (a dump as text and as JSON, alone and with
  a read tag; a control command; a quiet read of either container; a history query; watches of
  each). Parts that are one plain tag in and one out are told apart by `Accepted` only.
- `Batteries`: no DCB, and two or three: with three there is a first, a middle and a last one.
- `MaxRetries` 2 (and 3, 1 in the violation runs): one attempt more than the one that always is.
- `MaxInFlight`: a receive may time out while less than so many messages are under way. With 1 no
  answer is ever late; with 2 a late answer meets the next request, which is what all the stale state
  needs. More would let the same thing happen several times over.
- `attempts` and `sent` stop counting at `MaxRetries` and 2, behind which no property looks.
- `ReceivePath`: blocks of 4, growth of 8 and a limit of 17 keep the relations of 32, 4096 and 65557
  (the limit a little above a multiple of the growth); frames of less than a block, of that
  multiple and of the limit; pieces of every size; up to three frames, so that a whole one, a second and
  a part of a third can be in the buffer. The two violation runs use the constants of the code.
- The station sends nothing behind an unsound frame: the program ends there.
- `MCCommandLine`: three options are what a conflict takes at most: two that share a field or exclude each
  other, with a third that lets them through the checks (`-r`, `-w`, `-q`; `-m`, `-b`, `-r`; `-H`, `-D`, `-q`). Numbers lie below, at and
  above the limits and the widths of their fields (`Uint32Range` is 1000 instead of 2^32: only that -1 becomes a
  large number matters); the tags are one per way through `createRequestExample`, with a response and a command among them;
  the dates are 29 February in three kinds of years, a Sunday, both changes of the clocks and a year only the last check refuses;
  "today" falls on a summer day, a winter day and the day of the change.
- `MCJsonOutput`: no DCB or three (first, middle, last); every kind of handler that prints an object; all `OddityKinds`; late answers.

### Fairness, and why the code justifies it

`Session!Fairness`: the program is one thread that never waits but in `recv` (`WF(Program)`); `recv`
returns, by `SO_RCVTIMEO` if nothing comes (`WF(ReceiveTimesOut)`: this needs
`timeout_seconds > 0`, with 0 there is no timeout and a lost answer blocks for ever); the station
answers or drops a request (`WF(DeviceStep)`). None of the faults is fair: they may or may not come.
`TerminatesAfterTrouble` and `Terminates` are about runs outside of watch mode; the former assumes that
timeouts, lost requests and bad answers stop at some time, which is what the program cannot
enforce. `ReceivePath!FairSpec`: the program takes its next step, and of a program that enters `recv`
again and again the bytes sent arrive at some time (`SF(Receive)`); `AllHandedOn` assumes that it does enter
again and again, which is `Session`'s to decide.

## 4. Proofs

`SessionProofs` proves of `Session`, for every set of command lines, batteries and faults, every
`max_retries` and any number of messages under way (the assumptions are those stated in `Session`):

| Theorem | Result |
|---|---|
| `SafeAlways` | the inductive invariant `Safe` |
| `TypeCorrect` | `TypeOK`: also that the `uint8_t` fields never leave their range other than by the wrap that is modelled |
| `DumpStaysInRange` | `DumpInRange`: while DCBs are due, the index is below the station's number of DCBs, and retries of it are left if `max_retries` is in 1..255 |
| `RequestsStayInRange` | `OnceRequestInRange`: outside of watch mode no request names a DCB the battery does not have |
| `CommandIsSentOnce` | `CommandSentOnce` |
| `DumpWalksInOrder` | `WalksDcbsInOrder`: every step of the dump is a step of `DumpCursor`, or none, for `max_retries > 1` |

`DumpInRange` is not inductive: a late answer may bring a number of DCBs while the dump is under
way. `Safe` adds what is true of the messages (`GoodMessages`: every number of DCBs in an answer,
on its way or being handled, is the battery's own, and such an answer holds no data of a DCB) and of the walk
(`Walk`: while DCBs are due the first request is over, `totalDCBs` is the battery's number, the index is below
it, retries are left). `RequestsStayInRange` needs `Once` beside it: outside of watch mode, no request for a DCB is
built once the dump is over. `CommandIsSentOnce` needs `BeforeLogin`: before the login nothing
but logins is sent. The refinement excludes `max_retries` of 0 and 1 because the
answer that brings the count then skips DCB 0 in the same step (the run `skip_unasked`), so that the walk
seems to begin at DCB 1.

`ReceivePathProofs` proves of `ReceivePath`, for every block size, growth, limit, set of frame
lengths and way to cut the stream:

| Theorem | Result |
|---|---|
| `TypeCorrect` | `TypeOK`, with `iReceivedBytes` between 0 and the size of the buffer |
| `StaysInStep` | `InStep`, where memcpy copies upwards (`OverlapGarbles = FALSE`) |
| `QueueImplemented` | `HandsOnInOrder`: it implements `FrameQueue`, under the same assumption |
| `HoldsNothingBack` | `NothingHeldBack`, under the same assumption |
| `RefusesOnlyLargest` | `BufferFits`, under the same assumption and with a growth of whole blocks: in the code no frame of up to 65536 bytes is refused |

They rest on two facts about rounding (`RoundsDown`, `RoundsUp`: the padded length is the least
multiple of the block size, so a frame that is complete in whole blocks is there with its padding), on
`Stream` (frames follow each other without a gap, no two at one place) and on `InPlace` (the buffer begins
with the frame that is next, the saved IV belongs to it, and nothing in the buffer has not been sent).
`HoldsNothingBack` adds `Open`: whenever the inner loop has been left, the frame in front is short of
its padded length. `RefusesOnlyLargest` adds that the size of the buffer is a multiple of its growth, so that
beyond the limit it is at least a growth above the last multiple within it, and less than a growth of room
means that more than that multiple has come of a frame that is still open.

`SessionInTimeProofs` proves of `Session`, for every set of command lines, batteries and faults and every `max_retries`, with
`MaxInFlight = 1`, that is, when no answer comes behind the timeout of its request:

| Theorem | Result |
|---|---|
| `ValuesAreFound` | `NoWrongNotFound`: a quiet query never says "not found" of a value that came |
| `DumpIsComplete` | `DumpComplete`, for any number of DCBs, when no `DCB_INFO` comes outside of its container (`toplevel`) and no tag of the battery is read along with a dump outside of watch mode |
| `LaterSkipsAreEarned` | `LaterSkipMeansAsked`, when no `DCB_INFO` comes outside of its container |

`NoWrongNotFound` says nothing of messages and is far from inductive. `Lockstep` says that at any place of `mainLoop` at most one thing is
under way (a request, its answer, or values of it still to be handled), and none at all before a send; `Found` says of whichever of the three
it is that the container flags in `g_ctx` are those the request was built with, as far as a value asked for may still be in it: for a value in an answer, that
no container of the same kind precedes it in the frame, which would have cleared the flag.

The two theorems about the dump rest on `Timely`, which speaks of a dump that has the battery's containers to itself. Of whichever of the three is
under way it says that what belongs to the dump is for the DCB that is due (its index is never compared by the
handler, so nothing else keeps data of one DCB from being counted for another), or for the number of DCBs
if none is due yet, and that it comes once in a frame; and of the walk, `WalkKept`, that the DCBs that are `Accounted` for (shown, warned of, or blank) are exactly those before the one
that is due, in the end all of them, and that `dcbRequestRetries` is no more than the requests sent for this DCB,
less by one while one of them is unanswered (`Tried`). `Finished` says how a run ends that ends of its own accord: no DCB is due, it is no watch, and the JSON is printed. `Served` follows a run in which
nothing has gone wrong through its first two rounds: the login is done or on its way, then the number of DCBs is, so that only a run that was
`troubled` ends without it.
The assumptions are needed: late answers (`dump_hole`) and `DCB_INFO` on the top level (it moves on without resetting the retries) break
one or the other, and the elements of a battery tag read along are answers without a DCB.

Three kinds of data have no bound in the code: the elements of a container, the options of a command line and the
tokens of a line. TLAPS cannot use the induction theorems of its library, whose predicate is a parameter.
`DataInduction` therefore states induction over a set: one that holds 0, and with every number the next one, holds them all. It is proved
from the least element of what is left out (`WFMin`, a theorem of the library). The models have their recursion in functions, so that such a set
can be given for each of them: the indices from which on, or up to which, the function is what is claimed.

`RscpValueProofs` proves that `Fits` is kept (a container's length is that of its memory and at most 65528, its elements lie end to end from 0 to its
length, each written right behind the one before), and what it is good for:

| Theorem | Result |
|---|---|
| `ElementKeepsFit` | by `appendValue` of data of up to 65528 bytes, although its sum has 16 bits (at 65529 it wraps) |
| `ContainerKeepsFit` | by `appendValue` of any container |
| `ChecksumCoversFrame` | of a frame built from a container that fits: it passes the checks of `parseFrame`; its checksum covers all of it exactly if it has no more than 65517 bytes of data |
| `TakenApart` | `ParseData` of a container that fits gives back its elements, all of them, in their order |
| `FrameTakenApart` | the same of a frame |

`TakenApart` goes backwards: the walk of `parseData`, begun at the place of element `k`, finds the elements from `k` on. At the end of the data there
are none; a step before it, the element at this place is the next one, as no two lie at one place.

`CommandLineProofs` proves of `CommandLine`, for every set of options and every number of them, every table of tags, configuration and date:

| Theorem | Result |
|---|---|
| `TypeCorrect` | `TypeOK` |
| `LimitsAreRespected` | `LimitsRespected` |
| `QueriesReadOnly` | `QueriesOnlyRead` |
| `SessionIsComposed` | `SessionInputs`: `Session`'s `CommandsAssumption` is what main guarantees |

None of these is inductive: they speak of a frame, the checks were made of `g_ctx` earlier. The invariant `Inv` has four parts: `Typed`; `Told`, that each
query on the command line has left its flag in `g_ctx`, whatever came behind it; `Checked`, that behind each check its
condition holds of `g_ctx` as it is by then, and that nothing but the empty frame was there before; and `Permitted`, that the frame sent last
holds controls only as `g_ctx` has them, and no module but that of `g_ctx`. The step from `g_ctx` to a frame goes along `appendValue`: what is in a
container after it was in it before or is the element.

`RequestProofs` proves of `CommandLine`, for the same constants:

| Theorem | Result |
|---|---|
| `OneModuleIsAsked` | `OneModuleAsked` |
| `LoginIsComplete` | `LogsInCompletely` |
| `RequestSaysWhatWasAsked` | `SaysWhatWasAsked`, in every round of a dump or a watch |
| `PeriodIsRight` | `PeriodAsked` |

The property compares the first thing, the words of the command line, with the last, the values a station finds in the frame. The invariant
`Requests` joins them over the steps between. `Heard` says that each field of `g_ctx` is what the last of its options said, and each flag up
exactly if one of its options came, for command lines of every length; `TagSettled` and `DateSettled`, what the lookup of the tag
and the check of the date have made of it by the time the configuration is read; `Configured`, that `e3dc_config` is a whole one, made of one of the files;
`LoginFrame` and `CommandFrame`, of which context, DCB and moment the last frame was built. On the other side `CommandListed` adds up that all
parts of a request together have at most 249 bytes, so that none is refused for its size, and says which leaves each holds;
with `FrameTakenApart` the values found are these parts.

`PeriodIsRight` needs the calendar beside this. The first days of years and months differ by the lengths the code has (`YearLength`, `MonthLength`). Of
a week more has to be shown: `dateToTimestamp` takes the hours of whole days off the given day's midnight, which is right only if both
midnights are in the same half of the year. The clocks change on Sundays, behind midnight, and a week begins on
Monday, so that all its midnights are on one side (`ChangesOnSunday`, `SameAllWeek`).

The assumptions are those of `CommandLine`: that the word of `-D` is "today", a date or malformed, that moments lie on days there are, that tags have numbers and 0 is
the number of no tag.

`JsonOutputProofs` proves of `JsonOutput`, for every set of command lines, batteries and faults and any number of messages under way:

| Theorem | Result |
|---|---|
| `DocumentIsOneObject` | the tokens of `JsonModuleDumpBuffer::output` are one object and the end of a line, for any buffer |
| `JsonTypes` | `JsonTypeOK` |
| `LinesAreObjects` | `OneObjectPerLine`: until a value of `Oddities` is printed, whichever there are |
| `DumpDocuments` | `DumpDocument`, for any number of DCBs and whatever values come |

The document is the place where the reader is followed through data of any length: it reads members and commas one after the other
without leaving the object they are in (by induction over their number), so that it is behind every handler where the
handler found it. `BufferSafe` is what holds of the buffer, whatever is printed beside it. `LineSafe` says, until one of
`Oddities` is printed, where the reader is: at the start of a line, or inside the object that `--info -j` opens around
a frame; it needs `Safe`, for the indices in the buffer, and `Asked`: the values of a PVI, and those of a battery that are
printed one by one, are on their way only if the command reads them, so none comes into an object that is open. `DumpDocuments` adds `InTime` of `SessionInTimeProofs` as long as
nothing has been late, and what the buffer holds beside it (`Documented`): while the walk is at a DCB, the module's fields and, in their order, one
entry for each DCB behind it that is not `LeftOut` (skipped, or without fields); before the count has come, no entry and of the fields none, some or all.
A DCB whose index does not fit its `int8_t` (128 and more) is among those without fields.

Only model-checked: what needs fairness (`TerminatesAfterTrouble`, `InterruptEnds`, `WatchPolls`, `AllHandedOn`), as TLAPS 1.4.5 proves neither
`ENABLED` nor liveness under fairness; and the violations, which are counterexamples. Every invariant and every action property that a passing run checks
is a theorem as well; `DumpDocument`, `DumpComplete`, `LaterSkipMeansAsked`, `WalksDcbsInOrder` and those of the receive path under the assumptions named with
them.

## 5. Plan

Done: all modules of section 2 and the theorems of section 4. Left, in this order:

1. `Session` with a battery of more than 128 DCBs (the `int8_t` index, `Holds`) and `max_retries` from 256 on (the retries never
   reach it, `NextRetry`) as runs of their own; both are modelled, the batteries of the runs are smaller.
2. The handlers `InJson` leaves out and the values of `OddityKinds`, once it is decided what they are to print with `-j`.
3. Late answers in `DumpDocument`: what a document may lack then.

### Divergences

Beside the findings, which have a run, these came up while modelling. The properties leave them out, where they say so.

- A dump whose first answer (the one with the number of DCBs) is lost, empty, or stops at an error element before the count, which
  is asked for last (`rscp_handler.cpp:123`), is not asked for again: `needMoreDCBRequests` is still down (1962) and the run ends as finished, with
  status 0, without a DCB and without a warning for any, although `docs/USAGE.md:245` promises all of them. `DumpComplete` says that this is the one way
  not to be told of the DCBs; it does not exclude it.
- A DCB of which only the index comes, or whose index is 128 or more, counts as received (631) and is neither shown nor warned of (641):
  `blank` in `DumpComplete` and `DumpDocument`. So is, in text mode, every DCB that comes under `-q`, where nothing is printed.
- `-j` prints text, or nothing, for some values: values of `BAT_DATA` outside of a dump; those of `PVI_DATA` in quiet mode; answers to controls; a
  `DCB_INFO` on the top level (`InJson` leaves these out). `docs/USAGE.md:571` and `README.md:53` promise JSON for all queries.
- The values of `OddityKinds` do the same, and `OneObjectPerLine` speaks of what is printed before the first of them: `-r` of `INFO_SERIAL_NUMBER`, `INFO_PRODUCTION_DATE` or
  `INFO_SW_RELEASE` prints a bare member without braces and newline (`rscp_handler.cpp:1450-1482`); `-r` of the reserve (339), of
  history data (1241), and of 64-bit integers, containers, byte arrays and timestamps (1591-1714) prints text, and of a type without a case
  text or, with `-q`, an object left open (1718); a `PVI_DATA` element other than a float, and an element of a dump that is another container
  or of a type without a case (811-820), print text.
- `--info -j` together with `-r` or `-H` nests an object where a member is due; `--raw -j` prints CSV (`InJson`).
- `--info -j` prints an empty object for the answer to the login, too, and leaves a brace open when the login is refused.
- `-r` of a battery tag beside `-m` is answered by a container of its own in front of the dump's: it counts as an attempt of the DCB that is
  due, and its value is in the document once per round, but for the first, which the reset of the buffer removes
  (`DumpDocument`, `LaterSkipMeansAsked` leave it out).
- `-m 0 -b 1` dumps module 1, although `config.cpp:462` says that `-m` takes precedence (`Overridden`); the usage text
  (`config.cpp:93`) excludes `-m` with commands, the checks do not. Nor do they exclude all that `docs/USAGE.md` does: line 30 says that
  `-H` goes with no other action, line 314 that `--info` does not go with `-r`; `-H` with `-m` or `--info`, and `--info` with `-r`, are let through
  (`Accepted` is what the code does).
- `-E nan` passes the check of the reserve (`config.cpp:358`), as NaN is not less than 0, and is sent (`LimitsRespected` says so).
- `docs/USAGE.md:329` and the text at `rscp_handler.cpp:1258` call a month 30 days; the code asks for the calendar month, as
  `docs/USAGE.md:380` has it (`PeriodAsked`).
- The last day of a leap year is not in the year's history; "today" is an hour off when the clocks changed within the
  period (`PeriodAsked`). A period before 1970 would be a large number.
- `docs/CHANGELOG.md:44-45` names `E3DC_SERVER_IP` and `E3DC_SERVER_PORT`, which the code does not read.

## 6. Not modelled, and why

- Text output: formatting of values, log texts, the order of printed lines; no property is about them.
- `readConfig` as far as it splits lines and looks for the file, `-p` and `-t`, the choice of a file: text processing and I/O.
  What becomes of the contents is in `CommandLine`.
- Connection set-up behind its outcome: address, socket options, the keys.
- Overloads of the codec the program never calls: `createFrame`, `appendValue` of a vector under a tag, `createValue` of vectors.
- The bytes of a value: no handler but those of dates and strings looks at them, and only to print them.
- The cipher: a pure function; `ReceivePath` models only the chain of its blocks.
- Tag tables: constants.
- SIGINT outside of watch mode, where it has its default effect and ends the process.
