# SAC: TLA+ models, model checking and proofs

SAC (Seismic Analysis Code) is an interactive program: it reads a command line
from the terminal or from a macro file, looks the command up, runs its handler
and comes back for the next one.  All of it runs in one thread.  What is hard
about it is therefore not concurrency but *global state that outlives the
command that set it*: levels, flags, slots and lists that one handler leaves
and another, many commands later, relies on.  The models are about that, in
three parts that share no state but the error number: **macros**, **the data in
memory** with the subprocesses that work on it, and **graphics frames**.

Paths below are relative to the repository (`src/src/cnd/xif.c` is the file
`src/cnd/xif.c` of SAC's source tree).

## 1. Inventory

| Component | State it keeps | Operations | Hard behaviour | What makes it correct | Status |
|---|---|---|---|---|---|
| Conditional execution, `src/src/cnd` | `cnd.h`: `niflevel`, `lifresp[]`, `ndolevel`, `ndotype[]`, `ndolines[]`, the lists `do_token[]`; the read position of the macro file | IF ELSEIF ELSE ENDIF DO WHILE ENDDO BREAK MACROQUIT | there is no parse tree: commands move the read position forward by searching and backward by counting; slots are per level, shared by all macros and never reset | a well-formed macro runs as the structured program its text spells; levels follow the text; loops end | modelled |
| Macro execution, `src/src/ncpf/executemacro.c`, `macroline.c`, `src/src/exm/xmacro.c`, `src/src/top/saccommands.c` | static `imacrolevel`, `cmcpf.nmacrolevel`, `lmacrostatus`, `macro_active`; a `fileunit` entry per level | MACRO, reading a line, ending a macro; errors on the way | recursion on the C stack over global flags; one status for all levels; entries outlive their macro | macros nest like procedure calls: files and levels follow the calls, an error or MACROQUIT ends what it should, the caller finds its loops again | partly: a MACRO or a conditional command typed at a pause is not composed |
| Macro preamble and arguments, `ncpf/macropreambl.c`, `macrokeyword.c`, `macroordered.c` | variables of the macro's list | `$KEYS`, `$DEFAULT`, positional arguments | none between commands | - | not modelled: text conversion |
| Data files in memory, `bs/iniam.c`, `dfm/` | the list of files (`sac_buffer`), `CURRENT`, `CURRENT_ID`; READERR's setting | READ, READ MORE, DATAGEN, FUNCGEN, WRITE, SORT, DELETECHANNEL, CUTIM, READERR | the current file's pointer and index are kept beside the list and go stale; READ and FUNCGEN clear memory before they know that there will be new files; deletions shift positions while they are being named | the pointer names a file in memory; the workset can be made a copy of it; a deletion removes the files named and no other | partly: READHDR, READTABLE, READCSS, MERGE and `CURRENT_ID` are not modelled |
| Commit and rollback, `ssi/` | a second copy of the data (the SeisMgr workset, on by default), a `wfdisc` row for each file | COMMIT before READ MORE and with many commands; RECALL and ROLLBACK are no longer offered | the copy is updated by position in the list, and not every command that changes the list tells it | a commit leaves a copy of the files in memory | partly: the rows, with the files in memory; recall and rollback, whose `deleteAllSacFiles` is empty, are not modelled |
| Messages, `msg/` | message stack, routing table | `setmsg`, `apcmsg`, `outmsg` | none | - | not modelled: formatting; the error status is part of macro execution |
| Variables and blackboard, `vars/`, `bbs/` | a dictionary of dictionaries | SETBB, GETBB, substitution | the `fileunit` entries outlive their dictionary | - | only those entries, with macro execution |
| Graphics devices and frames, `gdm/`, `gd2/`, `gem/`, `gcm/`, `gam/`, `pl/` | `cmgdm`, `cmgem` and its saved copy, `cmgd2`: devices on, the frame flag, the flags of plots, the SGF file and its number | BEGINDEVICES, ENDDEVICES, BEGINFRAME, ENDFRAME, PLOT, PLOT2, PLOTPK; the PRINT option | begin and end pairs across commands and errors; commands that change devices and flags for their own use and must change them back | frames have files, framing resumes, devices are those asked for, frames on file stay | partly: ENDDEVICES ALL, the options of SGF, windows and other plots are not modelled |
| SSS subprocess, `sss/` | `cmsss`: properties by position in memory, global properties, the sum, its length and window | ADDSTACK, DELETESTACK, CHANGESTACK, GLOBALSTACK, INCREMENTSTACK, SUMSTACK, WRITESTACK, ... | two lists in step by position; a sum and its length, kept beside each other in three commands | properties stay with their files; the sum is as long as it says | partly: velocity models and plots are not modelled |
| SPE subprocess, `spe/` | the file, `lfile`, `lcor`, `lspe`, the arrays of the correlation and the estimate, `kpspl1`, `kermsg`, `nprewh` | READ, COR, READCOR, WHITEN, PDS, MLM, MEM, PLOTSPE, WRITECOR, WRITESPE, ... | flags across arrays that are allocated anew; a message and an order left over from earlier commands | no result is offered before it is computed, and it is of the data it is offered with | partly: numbers and plots are not modelled |
| Parser, `eval/` | none between commands | | | - | not modelled: grammar, partly generated |
| Signal processing, `sam/`, `scm/`, `xyz/`, `fks/`, `icm/` | none | | floating point | - | not modelled: out of a model checker's reach |
| Network, `fern/`, `bs/octopus.c` | none | one synchronous request at a time | | - | not modelled: input and output |
| Vendored libraries, `libmseed`, `evalresp`, `sacio` | | | | - | not modelled |

### How the parts interact

`main_command` (`src/src/main/sac.c`) reads a line at the prompt and calls
`saccommands`.  That splits the line at semicolons, looks each command up and
calls its handler; after each it calls `proerr`, which reports an error to the
macro system.  The MACRO handler (`xmacro`) finds the file and calls
`executemacro`, which loops over `macroline` (read one line of the file, expand
it) and `saccommands` - so a macro runs another one on the C stack, in the
middle of a line.  The handlers of `src/src/cnd` are called through `xcndc` like
any other, and they alone move the macro file's read position: `skipif` and
`skipdo` read forward, `backspace` goes back.  The file is found by name, as the
`fileunit` entry of the variable list of the current level (`macro001`, ...).

The data commands share `sac_buffer`.  `sacget` sets `CURRENT` to the file it
returns, whoever calls it; `sacToSeisMgr` writes the rows of the workset in the
order of the buffer.  SSS and SPE are command lists of their own: `setcomlist`
says which table a command is looked up in, and while one is in force the rest
of the program's commands that change memory are out of reach, except READ and
DATAGEN in SPE and what SSS's own commands do.  Both keep state about the files
in arrays that READ, in the main program, does not know of.

A plot command opens the default device if none is on, saves the graphics
environment or one flag of it, begins a frame if framing is on, draws, ends the
frame and restores.  `beginframe` and `endframe` pass on to each device that is
on; the SGF device writes a file for each frame.  PRINT turns SGF on for one
frame, with a temporary file, and `endframe` prints and removes that and turns
SGF off.  Each of these steps is skipped by some error exit.

### Hard behaviours

The list with the line where each one bites is `hazards` in `PROJECT.json`.
The main groups:

- **Searching instead of parsing.** Three functions find the end of a clause by
  counting the first tokens of lines, each with its own idea of a keyword
  (`skipif.c`, `skipdo.c`, `getdolen.c`).
- **Slots that are not cleared.** `lifresp`, `ndotype`, `ndolines` and
  `do_token` keep what the last clause at the level left; levels are not reset
  when a macro ends in an error or by MACROQUIT, or when another one starts.
- **One flag for all levels.** `lmacrostatus` and `macro_active` are set again
  whenever a macro starts, while its callers have yet to look at them.
- **Failure on the way in.** `executemacro` changes the level and the flags
  before it opens the file.
- **Three lists tied by position and pointer.** Memory, the workset's rows and
  `CURRENT` each change at another place (`bs/iniam.c`, `ssi/`, `dfm/`), and the
  properties of SSS are a fourth.
- **Flags of subprocesses.** SPE's flags outlive the arrays they speak of.
- **Begin and end pairs.** Devices, frames, the temporary SGF file and the saved
  environment are begun and ended in different commands, and by errors not at all.
- **Pauses.** `$TERMINAL` swaps the `FILE*` entries of the level, and whatever
  ends the macro meanwhile closes the one that is there.


## 2. Modules

| Module | What it is |
|---|---|
| `MacroText` | lines, commands, and what the scanners take a line for; where a search stops |
| `Cnd` | the handlers of `src/src/cnd`, one operator each, and `cnd.h` as variables |
| `MacroRun` | macros run one after another from the prompt (one command on a line, no nesting): where the meaning of the commands is stated |
| `MacroExec` | nested macros and lines of several commands: `saccommands`, `executemacro`, `macroline`, the file entries; uses the same `Cnd` |
| `MacroPause` | the lines beginning with `$` that `macroline` interprets: `$TERMINAL`, `$RESUME`, `$KILL`, `$RUN`, `$ENDRUN`, for one level of macros |
| `Structure` | the block structure of a text, defined without the scanners |
| `Structured` | the abstract specification: a structured program's IF, DO, WHILE and BREAK |
| `MacroMeaning` | the properties of `MacroRun`, and the refinement mapping to `Structured` |
| `MacroNesting` | the properties of `MacroExec` |
| `MCMacroRun`, `MCMacroExec`, `MCMacroPause` | texts and inputs for TLC |
| `Memory` | `sac_buffer`, `CURRENT` and the workset's rows; commits and deletions |
| `Files` | the main program's commands that change which files are in memory |
| `Stack`, `Spe` | the commands of SSS and of SPE |
| `Session` | the three command lists over one memory |
| `SessionMeaning` | the properties of `Session` |
| `Graphics` | the routines of the graphics library, as operators from one record to another |
| `Plots` | a session of graphics commands, composed of those routines |
| `FramesMeaning` | the properties of `Plots` |
| `MCSession`, `MCFrames` | inputs for TLC |
| `CndProofs`, `MacroProofs` | lemmas about texts, searches and the handlers of `Cnd`; theorems of `MacroRun`, the refinement of `Structured` among them |
| `NestingProofs`, `PauseProofs` | theorems of `MacroExec`, of `MacroPause` |
| `Folding`, `MemoryProofs` | what a fold over any sequence computes; what additions, deletions and commits leave in memory |
| `SessionProofs`, `FramesProofs` | theorems of `Session`, of `Plots` |

`MacroRun` and `MacroExec` are two compositions of `Cnd` with a caller; `MacroPause`
stands beside them.  Both compositions `EXTENDS` `Cnd`: the handlers' primed
variables (`text`, `pos`, `nerr`, the levels) are the globals the C code shares.

### State and code

| Variable | In the code |
|---|---|
| `text`, `pos` | the macro file and its `FILE*` position, counted in lines |
| `niflevel`, `lifresp`, `ndolevel`, `ndotype`, `ndolines` | `cmcnd` in `src/inc/cnd.h`, by the same names |
| `do_token[l]` | the length of the token list of level `l` (`ldolist`, `xdo`); which items they are is not told apart |
| `nerr` | the error number, as 0 or 1 |
| `macro_active` | the flag behind `macro_on`, `macro_off` (`macrostatus.c`) |
| `truth`, `asked` | what the last condition evaluated to and how many items the last DO listed: the data, chosen freely, and kept so that properties can speak of it |
| `running`, `runs` | inside `executemacro`; macros started (a bound) |
| `rest` (`MacroExec`) | the C stack of `saccommands` calls: for each, the commands left on its line |
| `imacrolevel` | the static of `executemacro`, equal to `cmcpf.nmacrolevel` |
| `lmacrostatus` | `cmcpf.lmacrostatus` |
| `file`, `saved` | the `fileunit` entries: the one `kvarsname` names, and the others' |
| `fileunit`, `saveunit`, `nun`, `lrunmode`, `stdin` (`MacroPause`) | the two entries of the level, two locals of `macroline`, and whether the standard input is open; a unit is 0 for the standard input, or the number of the run whose file it is |
| `kept`, `spoiled` | history, for properties only |
| `mem`, `current` (`Memory`) | `sac_buffer` and `CURRENT` of `bs/iniam.c`; a file stands for the memory it was read into |
| `rows` | which file each `wfdisc` row of the workset was made from; `NoRows` before the first commit |
| `kecmem` (`Files`) | READERR's setting for memory |
| `slot`, `global`, `del`, `lsrc`, `twlim`, `sum`, `nlnsum` (`Stack`) | the arrays and scalars of `cmsss`; `sum` is the length the sum was allocated with |
| `spe`, `lfile`, `lcor`, `lspe`, `specor`, `spespe`, `kpspl1`, `kermsg`, `samfrq`, `nlncor`, `nprewh` (`Spe`) | `cmspe` and the statics of `dbh`, by name; an array is a record of what it was computed from |
| `comlist` (`Session`) | the command list in force |
| `given`, `whitened` | history: the properties a file was given, how often its data were whitened |
| `g` (`Graphics`) | `cmgdm` (`lgdon`, `lactiv`, `lbegf`), the devices' `on`, `cmgem` and `cmgemsav` (`gem`, `sav`: `lframe`, `lprint`, `lSGFtemp`), `lgems`, `cmgd2` (`jfun`, `kfilename`, `nfnum`) and the frame files on disk |
| `g.asked`, `g.misprint` | history: the devices the user turned on, whether a file was printed that was not the frame's |
| `xp` (`Plots`) | the locals of PLOT between two of its files |

An action is one handler from its call to its return, with the searches it
makes.  Reading a line is part of the action of the command on it in `MacroRun`
and an action of its own, `ReadLine`, in `MacroExec`.

Data is abstracted: a condition is TRUE, FALSE or an error, by free choice; a
DO has any number of items up to `MaxItems` and may be malformed; any other
command succeeds or fails.  A command name matters only as far as the scanners
tell it apart, so `CMD` stands for every ordinary command, and `IFFT` and `W`
for those whose names the scanners confuse with a keyword.

In `Session` a list of files is what becomes of each of them (read, unreadable,
missing), samples and results are replaced by what they were computed from, and
memory that is freed can be allocated again.  In `Graphics` a frame file is its
number, and nothing is drawn.  `Graphics` writes routines as operators because
they are called in the middle of each other; a command is one step, but for
PLOT, which stops between files.

Two things the code leaves undefined end a behaviour of the model where they
occur: a level beyond the ten slots of `cnd.h` (`InBounds`, `Defined`) - the step
that gets there is taken, the one after it is not - and, in `MacroExec` and
`MacroPause`, using a file that was closed.  That the first occurs is a property
of its own (`WithinLimits`).

## 3. Runs

| Run | Checks | Shows |
|---|---|---|
| `structured` | `TypeOK`, `LoopsRemembered`, `WithinLimits`, `RunsAsStructured`, `NestingKept`, `NoSpuriousError` | every well-formed text of up to five lines over nine words, and three long ones nested three deep, run once: moving the read position means what a structured program means |
| `sessions` | `LoopsRemembered`, `RunsAsStructured`, `NestingKept`, `NoSpuriousError`, `MacrosEnd` | two macros in a session: the second meets the levels, slots and lists the first one left, after an error and after MACROQUIT too; macros without WHILE end |
| `nested` | `TypeOK`, `FilesNest`, `SpoiledReadsNoLine`, `CallerFindsItsLoops`, `PromptReturns` | macros that call each other in the middle of lines, loops and clauses nest like procedure calls, and the prompt comes back |
| `open_fails` | `SpoiledReadsNoLine` | with files that fail to open at any level |
| `answers` | `TypeOK`, `ReadsItsOwnFile`, `NothingLeftOpen` | two macros of up to three lines with pauses, runs of programs and commands that fail in them, and a user who answers as documented |
| `spectra` | `TypeOK`, `CommitsAgree`, `CurrentInMemory`, `ResultsComputed`, `SpectrumOfCorrelation`, `LabelTrue`, `SpeFile`, `DeletesTheNamed` | any commands of the main program and of SPE over up to three files, with commands that refuse and fail: the rows and `CURRENT` follow the files, deletions mean the files named, and SPE's flags, file and label tell what its arrays hold |
| `stack` | `PropertiesFollowFiles`, `SumAllocated`, `DeletesTheNamed` | any commands of SSS over up to three files, left and entered again: properties stay with their files, the sum is as long as it says |
| `frames` | `TypeOK`, `FramesHaveFiles`, `FramingResumes`, `DevicesAsAsked`, `PrintsItsFrame`, `FramesStay` | any graphics commands, with plots that fail: every frame has its file, flags and devices come back, frames on file stay |
| `stale_list`, `twice`, `slots`, `reused` | one property each | disagreements of section 5: TLC finds each violated |

`RunsAsStructured` is the property that says most.  `Structured` knows nothing
of levels or read positions: it reads off the text where a branch, a body or a
loop ends, and remembers for each open clause whether a branch has run and for
each open DO the items to come, *by the line of the statement*.  The refinement
mapping reads these off the level slots of `cnd.h`, counting inward from the
current level; so it fails as soon as a slot is stale, shared by two open
statements, or off by one.

Of `Session`, `CommitsAgree` and `PropertiesFollowFiles` say the most: each is
about a list that no command is obliged to keep in step, and it takes three
commands at least to get one out of step.  Of `Plots` it is `DevicesAsAsked`,
which every way through PRINT and PLOTPK, with errors, has to restore.

More configurations are kept without a run of their own.  In two TLC finds no
error:

- `Session_files`: `CommitsAgree`, `CurrentInMemory` and `DeletesTheNamed` of the
  main program alone, with six files, so that READ, FUNCGEN and CUTIM can replace a
  full memory, with lists that cannot be read and with READERR MEMORY DELETE;
- `Session_mistakes`: `ResultsComputed` and `SpectrumOfCorrelation` of SPE with
  orders and windows that PDS and WHITEN reject, and with a DATAGEN that succeeds.

In each of the others it finds one property violated, and section 5 says what that
means: `MacroRun_ifft`, `MacroRun_w`, `MacroRun_limits`, `MacroExec_open`,
`MacroExec_erased`, `MacroPause_error`, `Session_unreadable`, `Session_default`,
`Session_cut_fails`, `Session_label`, `Session_whitened`, `Frames_out_of_range` and
`Frames_both`.

### Bounds

- `MaxLength` 4 or 5 lines: IF and a loop nested in each other with a branch or
  a BREAK inside fit; `Sample` in `MCMacroRun` adds what does not (a BREAK out of
  two clauses of an inner loop, after which the outer loop goes on).
- `MaxItems` 2: an empty list, a last item, and one before it.
- `MIFLEVEL`, `MDOLEVEL` 10 as in the code where sessions are not to reach them;
  2 in `structured`, where every text fits and `WithinLimits` is checked.
- `MaxRuns` 2 (one macro that leaves something behind, one that finds it), 3 in
  the nested runs (two callers and a macro called), and 11 in `MacroRun_limits`, which is
  one more than there are levels.
- `Unspoiled`: the passing runs of `MacroRun` leave out texts with both a BREAK
  and a DO with FROM, "=" or WILD, which show the finding `stale_list`.
- `MaxLength` 3 and `MaxRuns` 2 in `answers`: a pause, a command and another pause
  or a run of a program in one macro, and a second macro that finds the entries
  the first one left.
- In `nested` no macro is started after another command on the same line of a
  macro (`Separate`): that is what `MacroExec_erased` shows.
- `MaxFiles` 3 in `Session`: a file before, one that is removed or moved, and one
  behind it.  There are three files in the runs.  Memory for new files is not taken
  from the files they replace (`Allocated`), so in the runs one or two files can be
  replaced by READ and FUNCGEN, and CUTIM cuts one; with a full memory they refuse or
  fail, or find nothing.  CUTIM has old and new files in memory for a time; READ and
  FUNCGEN free the old ones first, but then set `CURRENT` and every row to the new
  ones, so that the same address would make no difference.  `Session_files`, which
  has six files, replaces three by three; the theorems are of any number.  All files
  but `c` have the same header, and are symmetric; `c` differs in its name, and in
  being evenly spaced or (`stack`) in its interval, so that SPE and SSS have a file to
  refuse.  The names are such that one is a prefix of the other.
- `MaxWhitened`, `MaxDelay` 1: whitened or not, a delay or none.  Session_whitened
  needs two whitenings.  INCREMENTSTACK is only given increments that leave the
  delays within `MaxDelay`, which is a bound of the model and not of the code.
- `MaxFrames` 6 in `Plots`: three of them are enough for a frame, one that is
  printed and one that comes later; six let the longest sequences of failures go on.

What the run `spectra` leaves out, because a property of it is false of the code
there, is shown by a violation each: a number given twice to DELETECHANNEL
(`CommitsAgree`, the run `twice`), a cut that fails (`CommitsAgree`,
`Session_cut_fails`), and orders or windows that PDS and WHITEN reject (`LabelTrue`,
`Session_label`).  `SpeFile` is false with lists of which every file exists and none
can be read, with READERR MEMORY DELETE and with a DATAGEN that succeeds in SPE;
`spectra` has none of these, `Session_files` the first two and `Session_mistakes`
the first and the last.  A deletion from the stack that is not at its end is left out of `stack`
(`PropertiesFollowFiles`, the run `slots`).

`Plots` names such cases in `Cases`; a run says which of them happen.  `frames`
has none of them, so what its properties say is said of the orderly session only.
TLC finds, with one case at a time:

| Case | What happens | Fails |
|---|---|---|
| `display` | the window cannot be opened | `FramingResumes`, `DevicesAsAsked`, `FramesStay`; `FramesHaveFiles` when SGF is the default |
| `within` | BEGINDEVICES while a frame is open | `FramesHaveFiles`, `DevicesAsAsked`, `PrintsItsFrame`, `FramesStay` |
| `reuse` | PRINT with SGF off, after a frame on file | `FramesStay` (the run `reused`) |
| `print` | PLOT2 PRINT fails, and restores an environment in which it has not begun | `DevicesAsAsked`, `FramesStay` |
| `both` | PLOTPK with both devices on | all but `TypeOK` (`Frames_both`: `DevicesAsAsked`) |
| `limits` | PLOTPK leaves at a bad range of times | `FramingResumes` (`Frames_out_of_range`), `DevicesAsAsked`, `FramesStay` |
| `stale` | ENDFRAME PRINT with SGF off, or with no frame | `PrintsItsFrame`, `FramesStay` |

### Fairness

`MacroRun` and `MacroExec` assume weak fairness of everything but the user's
input: SAC runs commands in one thread and nothing but the prompt waits, so a
command that can run does.  No fairness is assumed between the outcomes of a
condition; that is why `MacrosEnd` and `PromptReturns` are checked for macros
without WHILE (a WHILE whose condition stays true never ends, and should not).

`Session` and `Plots` assume no fairness, and nothing is claimed to happen in
them: each of their steps is a command that the user types or a macro contains.

Deadlock is not checked for macros and graphics: a session ends when its
`MaxRuns` macros are used up, or its `MaxFrames` frames, and where the code is
undefined the model stops.  In `Session` it is checked: there is always a command
that can be given.

## 4. Theorems

The theorems hold for every value of the constants, under the assumptions the
modules state.  Of the macros: `LevelAssumption` and `RunsAssumption` (the numbers
of slots and of runs are natural numbers), `ItemAssumption` (a list may have an
item), `ProgramsAssumption`, `WordsAssumption` and `OpenedAssumption` (macros are
sequences of the commands told apart, and a file is opened or not).  Of the session:
what `Memory`, `Files`, `Stack`, `Spe` and `Session` assume of the headers, names,
lists and inputs, none of which says how many there are or what they contain.  Of
graphics: `DeviceAssumption`, `FramesAssumption` and `CasesAssumption` (the default
device is a device, lists are sequences of devices, the cases are those named).

The type invariants (`TypeCorrect` in four modules, `TypesKept`) are theorems
without a hypothesis, but for graphics, where an error must not be left to the
next command; what is at stake in them is not only types, see each below.

### Macros

**`TypeCorrect`** (`MacroProofs`): no search leaves the text, `backspace` never
goes above its first line, no ENDDO takes an item from an empty list, and no slot
gets a value its readers do not know, for all texts, well formed or not.
`TypeOK` is inductive by itself.  The work is in the searches: where a search
ends is the least line at which a count drops to zero, and that such a line
exists and lies in the text (`LeastExists`, `EndIfType`, `EndDoType` in
`CndProofs`) is proved from the well-foundedness of the order on numbers rather
than by induction over the text.  There is one lemma per handler.

**`LoopsFound`**, **`LevelsFollow`**, **`ErrorsAreGiven`**, **`LimitsSuffice`**
(`MacroProofs`) state `LoopsRemembered`, `NestingKept`, `NoSpuriousError` and
`WithinLimits` of all macros that are `WellWritten`: their clauses and loops match,
and no other command of theirs is taken for a keyword (`Plain`; the findings
`ifft` and `w_after_while` show what happens otherwise).  Any number of macros may
be started, also after errors and MACROQUIT.  The inductive invariant is
`TypeOK /\ Nested /\ LoopsRemembered`: that the slot of each loop open at the read
position holds the loop's length and kind needs that the levels are at least the
depths of the text there (`Nested`), and that needs that ENDDO goes back to its
own DO, which is `LoopsRemembered`.  What the proof shows of the code is that
`getdolen`, `getifblk` and `skipif`, each of which counts keywords in its own way, find
the clauses and loops of the block structure (`CndProofs`: `LoopEnds`,
`BranchHasClause`, `Between`): `MatchDo` and `MatchIf` say that two lines belong
together, by the depths at them, and the searches' counts are depths relative to
where they start.  `LimitsSuffice` is about the first macro of a session
(`runs =< 1`); for later ones it is false, which is the finding `limits`.

**`MeansStructured`** (`MacroProofs`) is the refinement: every behaviour of
`MacroRun` is one of `Structured` under the mapping of `MacroMeaning`, for all
`WellWritten` macros, any number of them in a session and any number of slots.
Its two hypotheses exclude two things that really happen.  `[]InBounds`: no level
leaves the arrays of `cnd.h` (the finding `limits`).  `NoListLeft`: no BREAK can
leave items that a later malformed DO finds - no macro uses BREAK, or none uses
the forms of DO that can list nothing, or a session runs one macro and no text
has both (the finding `stale_list`).
**`FirstMacroMeans`** states the same of the first macro of a session without
`[]InBounds`: that its text nests no deeper than the arrays is enough, by
`LimitsSuffice`.

The mapping counts the open statements further in, the handlers only step a level
up or down, so the proof rests on a fact about texts: the statements open at a
line are those where the depth has risen and not come back since (`Rises`,
`OpenDosRise`, `OpenIfsRise` in `CndProofs`).  Hence the slot of an open statement
is the level less the difference of two depths (`SlotsAre`), and a statement that
stays open stays in its slot, however many others a command closes (`SlotsStay`).
What a handler writes to one slot is then a change of the abstract state of one
statement (`TakenKept`, `TakenSet`, `LeftKept`, `LeftSet`).  On these rests a lemma
for each statement (`IfMeans`, `ElseifMeans`, ..., `BreakMeans`), which also shows
that the line where the read position ends is the one the structured program goes
to, and `ListsEmpty`, an invariant of its own: as long as the macro has met no
error, slots above the current level, and those of WHILE loops, hold no items.

**`FilesAlwaysNest`** (`NestingProofs`): `MacroExec` keeps `FilesNest`, for all
macros, inputs and depths, when every macro file that exists can be opened
(`Opened = {TRUE}`; without that it is false, which is what `MacroExec_open` shows).
`FilesNest` is inductive once it is known that the stack is a sequence no deeper
than the macros started (`LevelsTyped`), so that the level has an entry to be
saved in.  Commands, whatever they do to the read position and the slots, leave
the files and the depth alone (`FilesKept`); starting a macro and ending one are
a lemma each; and `LoseFile`, in which a macro finds no file under its level's
name, is never enabled.

**`ErrorsEndMacros`** (`NestingProofs`) states `SpoiledReadsNoLine`, files that
cannot be opened included, when a macro is only started by the first command of a
line (`Separated`; without that it is false, the finding `erased_error`).  It is an
action property, and needs an invariant (`Noticed`): after a failed command or
MACROQUIT one of the flags `executemacro` looks at is down, *and* no command that
is left on any line of the stack would raise it again.

**`CallersFindLoops`** (`NestingProofs`) states `CallerFindsItsLoops`, at any depth:
the slots of `cnd.h` are one set for all the macros on the stack, a macro starts
on whatever level its caller has reached, and nothing resets them when it ends.
The hypotheses: macros are `WellWritten`; their conditional commands begin their
lines (`StatementsLead`), where the searches look for them; macros are run by the
first command of a line (`Separated`) and their files can be opened, since
otherwise an error can be lost and a macro left in the middle.  The macros of the
run `nested` are of this kind.  The invariant is
`Framed`: as long as no macro has met an error, each one on the stack has a
*frame*, the slots as its caller left them, and

- the levels are those it started on and the depth of its text at its position;
- no slot of those it started on has changed;
- its own open loops are recorded (`LoopsRemembered`, of every macro rather than
  of the one that reads).

The frame of a caller speaks of the text and the position that `FilesNest` shows
to be the ones it goes on with.  A macro ends at the end of its text, where the
depth is zero, so the levels are its caller's (`FrameEnds`), and what was true of
the caller holds again of slots that agree with those it left (`FrameAgrees`).
That a command keeps the frame of its own macro rests on the lemmas of `CndProofs`
that serve `MacroRun` too (`CommandFollows`), which are stated of any level a macro
may start on, and on `SlotsBelow`: no command writes a slot at or below the level
its macro started on.

**`ReadsOwnFile`**, **`PausesEnd`** (`PauseProofs`): `MacroPause` keeps
`ReadsItsOwnFile` and `NothingLeftOpen`.  Neither is inductive: that a macro is
read from its own file after `$RESUME` needs to know what `saveunit` holds during
the pause, and that `closemacro` closes the right file needs to know that `$KILL`
has put it back.  The strengthening `Inv` says that of the files opened only the
last is open and only while a macro runs (`OneOpen`), that `fileunit` names it, or
during a pause `saveunit` does (`Named`), and that `macroline` reads what
`fileunit` names (`LooksUp`).  The properties speak only of macros without `$RESUME`
and `$KILL` and pauses at which no command fails (`AsDocumented`); without the
second they are false, which is what `MacroPause_error` shows.  **`TypeCorrect`**
there needs none of this.

### Memory, SSS and SPE

What a deletion and a commit leave is defined in `Memory` by folds over a list.
`Folding` proves once what a fold computes: if f takes the base value at 0 and at
n + 1 what the step makes of f[n], the fold is f at the length (`FoldLeftIs`).
The induction behind it runs over a set of numbers; `FoldLeft` reaches its values
through a recursive function of its own, which an INSTANCE makes visible.

**`DeletionLeavesTheOthers`** (`MemoryProofs`): deleting by position in decreasing
order, as DELETECHANNEL and DELETESTACK do, leaves the files whose numbers were not
given, in order, for every list of numbers in any order and with repetitions.
**`DeletesWhatIsNamed`** (`SessionProofs`) lifts it to the action property
`DeletesTheNamed` of `Session`.

One invariant, `MemoryInv`, carries the next two.  It says that memory holds no
file twice, that `CURRENT` and the rows point to files that were read (`MemoryOK`),
what READERR is set to (`Saved`), and, each under the hypothesis it is true
for, `CurrentInMemory` and that every row has its file (`RowsFit`).

- **`CurrentStaysInMemory`**, `CurrentInMemory`: when DELETESTACK is not used
  (`StackDeletions = {}`); it deletes the file `CURRENT` points to and leaves it.
- **`CommitsWhatIsInMemory`**, `CommitsAgree`: when files are deleted one at a time and no
  cut fails, and where SSS is used no READ or FUNCGEN empties the memory and then
  fails (`Regular`).  Each hypothesis is needed.  CUTIM of two windows on two files
  makes four files, whose rows are fewer; deleting the first, third and fourth at
  once stops at the missing row.  That takes one file more than the runs have.

**`SpeHasItsFile`**, `SpeFile`: when one of the files in a list that exist can be
read and READERR MEMORY is not DELETE (`Readable`), and DATAGEN fails in SPE; it
replaces the file otherwise.  **`TypeCorrect`** contains that memory never holds a
file twice, that SSS's slots exist, and that no estimate is made of a correlation
that was not computed.

**`PropertiesStayWithFiles`**, `PropertiesFollowFiles`: of every behaviour in which
DELETESTACK is only given the last files of the stack (`OnlyLastOnes`, of the
numbers and of what is in memory, so it is a condition on steps); for others it is
false, the finding `slots`.  `DELETESTACK` moves slots down once for each file it
deletes, and what has to be shown is that deleting the last files, in whatever
order and however often they are named, moves none that stays (`SlotsStay`), and
that the files that stay are a prefix (`FilesStay`).

**`SumIsAllocated`**, **`FlagsOnlyForResults`**, **`EstimateOfCorrelation`**:
`Session` keeps `SumAllocated`, `ResultsComputed` and `SpectrumOfCorrelation`, for
all files, lists, deletions and mistakes - nothing of what the runs leave out is
left out here.  The first needs to know what SUMSTACK compares before it allocates
(`SumInv`: the window, the length and the block are natural numbers, and the last
two agree).  The other two are conjuncts of one invariant, `FlagsTrue`: while SPE
is entered, a flag that is on implies a result that has been computed, and two of
them imply results of the same data.  What has to be shown of every command of SPE
is that it takes back the flags of what it overwrites, also when it then fails.
**`LabelIsTrue`**, `LabelTrue`, needs `Mistakes = FALSE`: a message that PDS or
WHITEN leaves is taken by a later MLM or MEM for its own, which then returns without
naming the estimate it has made over the one on show.  The invariant says that while
there is a correlation no message is left (`LabelInv`).

### Graphics

**`FilesWithFrames`**, **`FramingAlwaysResumes`**, **`DevicesStayAsAsked`**, and
**`TypesKept`** (`FramesProofs`): `Plots` keeps `FramesHaveFiles`,
`FramingResumes`, `DevicesAsAsked` and `TypeOK` for both default devices, all
lists of devices and any number of frames, when of the cases above at most
`reuse` and `stale` happen (`Orderly`; with each of the others one of them is
false).  None of the first three is inductive.  The invariant says besides that the
device flags agree, that a temporary SGF device implies an open frame with both
devices on and a name for its file (`Core`), that a saved environment that is
restored cannot bring a temporary device back (`SavedTemp`), that no environment is
left saved, and that PLOT, while it goes from file to file with framing off, has a
frame to draw in.  There is a lemma for each routine of the library
(`Ended` for `endframe`, `Started` for `beginframe`, `CursorOn`, ...), which says
what it leaves of any state it may be called in, and one for each command, which
is composed of those.

**`PrintsOwnFrame`** states `PrintsItsFrame` without the case `stale`; here it has
to be shown that while SGF is off no name of an earlier frame is left where PRINT
looks for one (`Named`).  **`FramesOnFileStay`** states the action property
`FramesStay` in none of the cases.  Its invariant says that the numbers on disk are
below `nfnum`, so that a new frame takes a number that no other has.

## 5. Findings

In short.  `stale_list`, `twice`, `slots` and `reused` have runs with
`expect: violation`, and `findings` in `PROJECT.json` quotes the line of the
documentation or the comment each is held against; the others are shown by the
configurations of section 3 that are named with them.

- `stale_list`: after a BREAK out of a DO with items left, a later DO at that
  level whose range is empty runs its body with the old items (`xdo.c:209`).
- `ifft` (`MacroRun_ifft`): an IFFT command in a skipped branch counts as a nested IF
  (`skipif.c:85`).
- `w_after_while` (`MacroRun_w`): a line beginning with the command W after a nested WHILE is
  counted as another WHILE (`getdolen.c:93`).
- `limits` (`MacroRun_limits`): clauses left open by MACROQUIT or an error use up the ten levels over
  a session (`xif.c:58`).
- `level_leak` (`MacroExec_open`): a macro that cannot be opened leaves the macro level raised
  (`executemacro.c:71`).
- `erased_error` (`MacroExec_erased`): a MACRO command after a failed one on the same line of a macro
  erases the failure, and the macro goes on (`executemacro.c:63`).
- `pause_error` (`MacroPause_error`): a command that fails at a pause ends the macro while `fileunit`
  names the standard input; that is closed, and the macro file is not
  (`closemacro.c:55`).
- `twice`: a file named twice in DELETECHANNEL is deleted once, but its row in the
  workset is asked to go twice: another row goes, or the deletion stops there and
  rows of deleted files stay (`xdeletechannel.c:142`).
- `unreadable` (`Session_unreadable`): a READ of files that exist and cannot be read deletes the files in
  memory also under READERR MEMORY SAVE (`lfilesok.c:109`).  `src/aux/help/readerr`
  says of SAVE (lines 35-36) that files previously in memory are to remain there.
- `default` (`Session_default`): `src/aux/help/readerr:42` gives MEMORY DELETE as the
  default; the code starts with SAVE (`inidfm.c:159`), and a READ for which there is
  no file leaves the files in memory.
- `cut_fails` (`Session_cut_fails`): a CUTIM whose second cut fails leaves rows of files that are gone
  (`xcutim.c:197`).
- `label` (`Session_label`): MLM and MEM take a message that PDS left for their own, and return with
  their estimate under its name (`xmem.c:98`).
- `slots`: DELETESTACK of a file that is not the last leaves the last one with the
  properties of another (`xdeletestack.c:145`).
- `reused`: PRINT with SGF off takes the name of the last frame on file for its
  temporary file, writes over it and removes it (`beginSGFtemp.c:29`).
- `out_of_range` (`Frames_out_of_range`): PLOTPK of files too far apart in time returns with framing off
  (`xppk.c:316`).
- `both` (`Frames_both`): PLOTPK with SGF and the window on leaves the window off
  (`cursoroff.c:30`).
- `whitened` (`Session_whitened`): WHITEN after COR makes estimates of the old correlation be corrected
  for a filter its data have not been through (`xwhiten.c:90`).

The models also show, as behaviour rather than as a finding, that MACROQUIT ends
every macro that is being executed and not only the one it is in: `macro_off`
clears the one flag that each `executemacro` on the stack looks at.  That is what
`SpoiledReadsNoLine` says of it.

## 6. Plan

In order; each item is a module, its runs and its theorems.

1. **Macros** (done): `Cnd`, `MacroRun`, `MacroExec`, `MacroPause`.  Left: the
   composition of pauses with nesting (a MACRO typed at a pause; conditional
   commands typed there, whose searches read the terminal).
2. **Memory and the workset** (done): `Memory`, `Files`.  Left: READHDR and the
   commands that merge or cut files in place; `CURRENT_ID`.
3. **SSS and SPE** (done): `Stack`, `Spe`, `Session`.  Left: the velocity models,
   whose failure leaves a sum of zeros.
4. **Graphics frames** (done): `Graphics`, `Plots`.  Left: ENDDEVICES ALL, after
   which BEGINDEVICES uses the device array that was freed; the options of SGF;
   windows.
5. **Proofs** (done): every invariant and action property of the passing runs,
   and the refinement of `Structured`, under the hypotheses of section 4.

## 7. What is only model-checked, and what is not modelled

Liveness (`MacrosEnd`, `PromptReturns`) is checked by TLC only: the prover does
not handle fairness.  The other properties of the passing runs are theorems, each
under the hypotheses of section 4.

Of the ways a session can end in undefined behaviour, some have no step in the
models, such as a READCOR that fails, after which COR computes a window of no samples
and divides by it (`xcor.c:151`); `hazards` in `PROJECT.json` names the others.

Not modelled: formatting of messages, expansion of arguments and expressions in
a line, the commands' own effect on samples, everything the table of section 1
marks so.  Most of the repository is of that kind: the vendored libraries
(`libmseed`, `evalresp`, `sacio`, `yyjson`, which have projects of their own),
numerical routines on arrays of samples, the generated parser, file formats and
drawing.  They keep no state between commands that a property could be about,
or compute with floating point.
