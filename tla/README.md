# A verification of herdr-mem-cpu-load

herdr-mem-cpu-load samples a machine's CPU, memory and load and puts them, as
*metadata tokens*, into the sidebar of the terminal multiplexer herdr. Most of
its code formats numbers. What is hard about it is the daemon: it runs for days
next to a server it does not control, talks to it through short-lived `herdr`
commands, follows a configuration file that people edit, must be alone, and must
never leave rows on a workspace it forgot. This directory models that part in
TLA+, with what surrounds it: the way from the kernel's counters to a sample,
the watch in a popup, and the way from flags and file to settings. It is
model-checked with TLC on small instances, and its main properties are proved
with TLAPS for all of them.

Source references are to files under `src/`, with `mod.rs` for
`src/src/daemon/mod.rs`, `cli.rs` for `src/src/herdr/cli.rs` and the other names
for the files of that name under `src/src/`.

## The system

| Part | Code | State it keeps | Operations | Modelled in |
| --- | --- | --- | --- | --- |
| Daemon loop | `daemon/mod.rs` | options, `reported`, `failures`, sequence, levels, history | `run`, `tick`, `reconfigure` | `Daemon`, `SidebarView`; behind the lock in `Handoff` |
| herdr client | `herdr/cli.rs` | none, one child at a time | `list_workspaces`, `report_metadata`, the timeout | `Daemon`, `Herdr` |
| herdr server | not in this repository | workspaces, focus, rows with a ttl, sequence numbers | list, report, startup hooks | `Herdr`, `Handoff` (external) |
| Singleton lock | `daemon/lock.rs` | an open file and its kernel lock | `acquire`, the drop | `SingletonLock`, `Handoff` |
| Configuration watcher | `config.rs`, `main.rs` | a fingerprint | `load`, `new`, `poll` | `ConfigWatcher` |
| Configuration merge | `config.rs`, `cli.rs` | the settings of a run | `resolve`, `to_file_config`, `write_default_config` | `ConfigLayers` |
| Entry point | `main.rs`, `cli.rs` | none | one mode of five | `ConfigLayers`, `Sampling` |
| Tokens and levels | `tokens.rs` | one level per metric | `build_tokens`, `next`, `fitted` | `SidebarTokens` |
| CPU history | `daemon/mod.rs` | a ring of samples | `push`, `resize` | `SidebarTokens` |
| Bars and formats | `render/` | none | `render_bar`, `status_line` | their widths, in `SidebarTokens` |
| Sidebar rows | `sidebar.rs` | none, a temporary file | `write_rows`, `replace_contents` | `SidebarWriter` |
| Watch mode | `watch.rs` | a stop flag | `run_into`, `nap`, the stdin thread | `Sampling` |
| Metrics, platform | `metrics/`, `sys/` | last counters, decayed loads, the slot they are published in | `sample`, `update`, `collect` | `Sampling` |

How the parts interact. `main` resolves the settings (`args.settings()`), makes
a `ConfigWatcher` and hands the daemon a callback that polls it (main.rs:71-90).
`run` takes the lock or returns, then loops: poll the callback, `tick`, sleep
for what is left of the interval. A tick samples, pushes the history, advances
the levels, builds one `TokenSet`, lists the workspaces through a `herdr` child
process, and makes one child after another to clear stale workspaces and to
report to the targets. All of this is one thread. The concurrency is with what
is outside: users, the server, editors of the file, other daemons, other
installs. Watch mode reuses the sampler and the load source in a loop of its own
(watch.rs:41-79), next to a thread that reads stdin and shares one flag with it.

What is hard, and for each part what makes it correct:

- *Daemon.* The list is old by the time the reports go out; a call can be lost,
  or killed on its timeout with its report still under way; the clock of the
  sequence numbers may step back; a reload may change scope or source under the
  rows; the daemon may crash. Correct means: rows are where the focus is, none
  is left behind unknown to the daemon, no report is ignored as old, the daemon
  gives up only for cause, and does give up.
- *Lock.* Processes pass through `acquire` together and die anywhere in it; the
  file may be removed. Correct means: one holder, its pid in the file, and
  nobody blocked by the dead.
- *Handoff.* A new server starts its hook while the daemon of the old one still
  holds the lock, and either may be about to go. Correct means: a hook leaves
  somebody who reports, and never two.
- *Watcher.* Stat and read are two system calls with an editor between them.
  Correct means: no edit is missed, a broken file changes nothing, deletion
  falls back to the defaults.
- *Merge.* A file is edited, emptied or broken under flags parsed long before,
  read by another mode than it was printed by, and may ask for anything. Correct
  means: in range, flags stand, an edit changes what it says and no more.
- *Sampling.* Counters cannot be read, go back, or are read late; a terminal
  closes at any moment. Correct means: what is shown is of the time since the
  last good snapshot, every moment decays the load once, the watch ends.
- *Tokens.* Reports get lost, settings change between two of them. Correct
  means: the sidebar never mixes two reports, no level flickers, no number is
  cut off, the history is the recent past.
- *Sidebar rows.* Other people edit the same file, the machine stops. Correct
  means: no half file, no lost edit.

The full list of hazards, line by line and with the properties that cover each,
is in `PROJECT.json`.

## The modules

    Herdr  <---  Daemon  <---  MCDaemon
                   :  ^---  DaemonProofs  ...>  ReportLoop
                   v
              SidebarView
    SingletonLock  <---  MCSingletonLock,   SingletonLockProofs
         ^---  Handoff   <---  MCHandoff
                   ^---  HandoffProofs  --->  SingletonLockProofs
                               :..>  ReportLoop
    ConfigWatcher  <---  MCConfigWatcher,   ConfigWatcherProofs
    ConfigLayers   <---  MCConfigLayers,    ConfigLayersProofs
    Sampling       <---  MCSampling,        SamplingProofs
    SidebarTokens  <---  MCSidebarTokens,   SidebarTokensProofs
    SidebarWriter  <---  MCSidebarWriter,   SidebarWriterProofs

An arrow is EXTENDS, but for the dotted ones from `Daemon` to `SidebarView` and
from the two proof modules to `ReportLoop`, which are INSTANCEs under a
refinement mapping. Each `MC` module adds symmetry or the
values of structured constants; the numbers are in the `.cfg` files. In every
module a comment "Seeded fault" marks a variant of the definition that follows
it. No specification uses these; they exist to see that a property fails once
the code is wrong in that way.

**Herdr** is the server as the client relies on it. A row group is the time it
has left, because a report sets or clears all fourteen tokens together
(README.md:183): that every report names each of its keys once, to set or to
clear it, is `SidebarTokensProofs!ReportNamesEachKeyOnce`. `accepted[w][s]` is the last sequence number of source `s` on
workspace `w`: the daemon uses one number for all the workspaces of a tick
(mod.rs:455), so herdr has to remember it for each.

**Daemon** is `run` and `Daemon::tick`. `pc` says where the one thread is:
`awake` before the reload callback (`Reload`), `tick` at the socket check and
the sampling (`SocketGone`, `Prime`, `SampleFails`, `Sample`), `list` in
`herdr workspace list` (`ListOk`, `ListFails`), `report` in the two loops of
`report-metadata` calls (`ReportHandled`, `ReportLost`, `ReportKilled`, then
`EndTick`), `asleep` in the sleep (`Wake`). Code between two calls touches
nothing another process sees, so it belongs to the step before. `reported`,
`failures`, `primed`, `last` and `options` are the fields of `Daemon`.
`ReportKilled` puts the report into `late`, from where it may arrive at any
later time or never. Time passes in units of one interval: in `Wake`, and in
`CallTakesTime`, because a call may block for ten seconds. `tainted` and
`renamed` are observers: how long rows may still be up that a failed or late
call, a crash, or a renamed source left behind. Nothing in the daemon reads
them. `missed` counts failed lists independently of the code's `failures`. `lost`
and `fresh` are observers of one tick: which targets of the last list a report
did not reach, or which closed since, and how long the rows of the others have
left of a ttl counted from that list.

**SidebarView** is the daemon as a person sees it: workspaces, focus, rows with
the time they have left, and nothing of calls, numbers, failures or processes.
The plugin looks once (`Look`), then takes rows away elsewhere (`Clear`) and puts
them up (`Show`), and may not put one up before the others are gone, unless
something out of its hands went wrong within the last ttl (`grace`). `Daemon`
implements it: `aims` is its `targets`, `grace` the longer of `tainted` and
`renamed`, `owed` whether a killed report is still under way.

**ReportLoop** is the loop of `run` as somebody sees it who waits for its end, and
nothing else: check the socket, get a list or miss one, stop after as many missed
in a row as may be. `Daemon` has this loop with every call in it, `Handoff` has one
per process with all but the end left out. Both are proved to implement it, so
that the short loop of `Handoff` and the long one of `Daemon` end in the same way.

**SingletonLock** is `acquire` by any number of processes. A path names a file,
a process has a file open, and the kernel lock belongs to the file: a removed
and recreated file is another lock. `AcquireFails` is "starting anyway"
(mod.rs:602-611). `End` is a return as well as a kill.

**Handoff** puts the loop of `run` behind that lock, for several processes that
are started by the hooks of one server after another (`Hook`) or by hand
(`ByHand`). The loop is reduced to what ends it: the socket check (`Check`),
the tick that ends before it lists (`NoSample`: the first of every process, whose
snapshot is only the baseline, and any whose sampling fails), and a list that comes
(`Report`) or fails (`ListFails`). `Stopping` is the time between the decision to stop and the release of the lock, the window in which a
hook may be turned away by a daemon that is about to go. `excused` is an
observer: nobody has to report any more, because one was killed, the socket went
or a daemon missed `max_failures` lists, until the next hook.

**ConfigWatcher** is `main`'s load, `ConfigWatcher::new` and `poll`, split where
they make a system call (`Load`, `Watch`, `PollStat`, `PollLoad`), against an
editor that renames (`Save`), writes in place (`Truncate`, `WriteSome`,
`WriteRest`) or deletes. `Daemon!Reload` is the other end of it: there the
callback may or may not have something to say.

**ConfigLayers** is what happens to a text once it is read. A layer (the flags, a
file) is a function from the keys that are set, so `a.or(b)` is `Over`; the
settings are a function from all keys, and `resolve` is `Over`, the defaults, the
clamps and the followers (`Ttl` follows the interval, three lengths follow
`graph_lines`). Around it is `main`, one run of the program after another, each
with a command line of its own: print and leave, write the template (`CheckTarget`
and `WriteTemplate`, with the user in between), add the rows, watch, or become a
daemon that polls. Keys that go through no rule of their own are one set, `Plain`.
`used` is an observer, the layer the settings came from. A poll compares texts
here; what a fingerprint misses is `ConfigWatcher`'s subject.

**Sampling** is what a tick does before it has a sample, for all three loops that
take one: the daemon's, the watch's and the single line. `counters` are the
kernel's, `previous` is `CpuSampler.previous`, `reading` the two numbers the
percentage is the quotient of. Any read may fail, a counter may go back, and time
may pass between any two steps, so that a round overruns its interval. On Windows
`folds` is the emulator and `published` the slot `load_averages` reads. `Show` may
fail: the watch returns the error of its sink, `println!` panics. `since`,
`truth`, `span`, `seededAt` and `late` are observers.

**SidebarTokens** is what a report says: the levels (`NextLevel`, `Advance`),
the ring (`Push`, `Resize`), the budget of `TokenOptions::fitted` (`Widest`,
`Cells`, `Fitted`) and the widths that come of it, and which keys are set and
cleared. A token's value is the tick that built it, and its length.

**SidebarWriter** is `write_rows`, cut where it makes a system call, by any
number of installs. A text is known by the edit that made it, by what the
parser finds in it, and by whether all of it is on disk.

## What is checked

| Run | States | What it shows |
| --- | --- | --- |
| `daemon` | 3.7 M | types, `NewestWins`, `RowsLast`, `NoStrayRows`, `RowsFollowFocus`, `HoldsWithoutFocus`, and the refinement `ViewSpec` |
| `daemon_stop` | 395 k | `NewestWins` under any clock, `GivesUpForCause`, `StopsWhenServerIsGone` |
| `lock` | 362 k | `LockLasts`, `OneDaemonPerPath`, `PidNamesTheHolder`, `RefusedByTheLiving` |
| `handoff` | 343 k | types, those of the lock included, `SomebodyStays`, `HooksNeverDouble`, `ReportsKeepComing` |
| `config` | 5 k | types, `NoMissedEdit`, `EditsTakeEffect` |
| `settings` | 71 k | types and ranges, `FlagsStand`, `PrintedStands`, `EditsStayLocal`, `TemplateSpares` |
| `sampling` | 640 k | types and ranges, `ShownIsNow`, `LoadCountsOnce`, `StopsWhenAsked`, `ClosedTerminalEnds` |
| `tokens` | 51 k | types, `ShowsOneReport`, `HistoryIsRecent`, `HistoryShowsNow`, `ReadingsAreWhole`, `NoFlicker` |
| `sidebar` | 5 k | `NothingHalfWritten`, `RecheckKeepsEdits`, `LayoutsStand` |

The properties are stated, with the lines they are about, at the end of each
module. In short:

- `NewestWins`: the number of a tick is newer than all herdr accepted, and than
  all that is under way, for every workspace still to be reported to.
- `RowsLast`: rows do not blink. A target that the last report reached keeps them
  for a whole ttl after its list, whatever arrives late.
- `NoStrayRows`: when no fault left rows behind, every workspace with rows is
  one the daemon remembers.
- `RowsFollowFocus`: after a tick whose list is still true, the focused scope
  shows rows on the focused workspace only, or on one at most.
- `HoldsWithoutFocus`: without a focus the workspace that has the rows keeps
  them.
- `ViewSpec`: whatever the daemon does, a viewer sees a behaviour of
  `SidebarView`: rows only where they belonged at one look, and no row up
  anywhere before the others are gone.
- `SomebodyStays`: a startup hook leaves a daemon that will report, the new one or
  the one that turned it away. `HooksNeverDouble`: never two of them.
  `ReportsKeepComing`: and it does report, again and again.
- `LockLasts`: who got the lock has it, on the file it opened, for as long as it
  lives, whoever else comes, is turned away, ends or removes the file.
- `NoMissedEdit`: if the file is as last seen, the daemon runs with it.
- `FlagsStand`: no file takes a flag away. `EditsStayLocal`: a reload moves a
  setting only for an edit of a key it is made from. `PrintedStands`: what
  `--print-config` printed gives the settings it showed. `TemplateSpares`: no
  template over a file that stood since the start, without `--force`.
- `ShownIsNow`: the share shown is that of all the time since the last good
  snapshot, whatever failed in between. `LoadCountsOnce`: every moment decays the
  emulated load once. `StopsWhenAsked`, `ClosedTerminalEnds`: a closed terminal
  ends the watch, after one more line at most, and nothing else does.
- `HistoryShowsNow`: the history token ends at the sample of its report.
- `ShowsOneReport`: all tokens shown are of one report, one level per metric.
- `LayoutsStand`: an install replaces neither a layout nor a text that does not
  parse, unless it was saved after the recheck, however many installs there are.
- `NoFlicker`: a level turns back only a whole margin from where it turned.

Bounds, and why they are enough:

- *Two workspaces, two sources*: a workspace to leave and one to go to, an old
  name and a new one. The order of several stale workspaces does not matter, as
  each report concerns one. Ttl 2 makes a row outlive one interval and end at
  the next, as the default ttl of two intervals and a second does.
- *Clock and sequence to 5* give four full ticks after the baseline: to report,
  to move, to clear, and to be renamed or restarted. *Three events* are spent on
  what users do and on what fails: for instance a focus move, a killed call and
  an edit. One restart; a second repeats the first.
- *Three processes, two paths, three files*: a holder, one that waits and one
  that was started after a removal.
- *Three texts*, two of one length so that only the mtime tells them apart, and
  five writes: enough to write in place and save again during one poll.
- *Seven values* around three pairs of thresholds, one of them with
  `warn = hot`; values of at most 14 characters, so that the widest readings
  fill a token with no cell left; history lengths of 0 to 3 over five samples.
- *Two processes, four starts, one server after another*, `max_failures` of 2, one
  failing call of the lock, one tick that slips under a server that serves, and
  two lock files: a daemon that holds, one that comes, and either again.
- *Eight files and twelve command lines*: every clamp at both ends, every
  follower with and without its leader, every mode, and a history too large for
  TOML (its limit is scaled to what TLC can count).
- *Four slices of time, an interval of one*, a counter that goes back once, two
  units of memory: a baseline, a window that fails, one that overruns, a good one.
  One busy counter of the three goes on (`Ticking`); the proofs are about all of
  them.
- *Two installs, two edits, two faults*: one to pass the recheck while the other
  renames.

Fairness. `Daemon!FairSpec` assumes weak fairness of the process's own steps:
the loop of `run` waits only for a bounded sleep and for children that are
killed after ten seconds (cli.rs:212-227). Nothing is assumed of users, the
server, the clock or late reports. `ConfigWatcher!FairSpec` assumes the same of
the watcher: `run` polls it once per interval. `Handoff!FairHandoffSpec` assumes weak
fairness of every process, none of servers, hooks or people; `Sampling!FairSpec` of the
loop and of the stdin thread, since a read of the kernel's counters and a nap are
bounded, and a thread whose `read` returned goes on. Deadlock is not checked where the
modelled processes do stop or the bounded clock runs out.

### Disagreements between the code and its documentation

Each of these runs checks one property that a comment or the README states, and
TLC finds the behaviour that violates it.

- `daemon_rename`: `reconfigure` replaces the source and keeps `reported`, so
  the clear of a workspace that is left goes out under the new name, and the
  rows of the old one stay for a ttl (mod.rs:387, 456-458).
- `config_midsave`: the empty file between an editor's truncation and its write
  parses, and the daemon falls back to the defaults (config.rs:310-314).
- `sidebar_unreadable`: a file that cannot be read counts as an empty one at
  the recheck, and is replaced (sidebar.rs:130-133).

Others are the reason for a condition that a property or a theorem carries:

- After a restart with the clock set back, reports are ignored until it catches
  up, since `last` starts at 0 (mod.rs:138-154): `ClockTrusted`.
- A file that is there only between the stat and the read of one poll is taken
  up, and its deletion not noticed (config.rs:306-308): `EditsTakeEffect` is about
  a file that stays, and nothing is promised of one that went.
- A history of more than 80 samples is cut at its new end (tokens.rs:291,
  README.md:162): `HistoryFits`.
- A hook that runs while the daemon of the old server is stopping is turned away
  by it, and then nobody reports (mod.rs:597): `excused`.
- A file that appears between `exists` and the write of the template is replaced
  (config.rs:630-640): `TemplateSpares` is about one that stood all the time.

And three are of the wording only. config.rs:104 says of the load bar "Defaults to
`graph_lines`", and resolve gives it 4 cells when nobody sets `graph_lines`
(config.rs:511-516, as cli.rs:46 says). config.rs:474 says of a failing `to_toml`
"in practice cannot happen", and it fails for a history above the largest integer
of TOML (`to_toml_holds`). A file printed without `--daemon` spells out
`graph_style = "classic"`, so a daemon that reads it has other bars than one
without a file.

## What is proved

All theorems hold for every value of the constants that satisfies the named
assumption of the module. Those of safety follow one argument: an inductive
invariant, that `Init` implies it, that each action keeps it (one step of the
proof per action), and that it implies the property. Those of progress are at the
end of the section.

- `DaemonProofs!Types`. `TypeOK` alone is not inductive: `failures` stays within
  its range only because a running daemon has not used it up (`TypeInv`).
- `DaemonProofs!ReportsAreNewest`, for `NewestWins`. `SeqInv` says that every
  number herdr accepted or that is late lies below a horizon: `last` if the
  daemon is never restarted, the clock otherwise; and that workspaces still to
  be reported to are below `last`. It needs `ClockTrusted`: a steady clock, or
  no restart. With neither, the first number of a new daemon may be an old one.
- `DaemonProofs!GivesUp`, for `GivesUpForCause`. `Counted`: a running daemon's
  `failures` is the number of lists that failed in a row, and an ended daemon
  reached `max_failures` or lost the socket.
- `DaemonProofs!HeldRowsStay`, for `HoldsWithoutFocus`. `ListInv` ties
  `targets`, `toClear`, `toSet` and `reported` to the list of the tick.
- `DaemonProofs!NoRowsStray`, for `NoStrayRows`. `RowInv` accounts for the
  rows of every workspace: remembered, to be cleared, or excused. A clear only
  takes rows away if it is not ignored as old, so the proof rests on `SeqInv`,
  and with it on `ClockTrusted`.
- `DaemonProofs!FocusIsFollowed`, for `RowsFollowFocus`, from the same.
- `DaemonProofs!RowsDoNotBlink`, for `RowsLast`. `CarryInv` adds to it
  that, while `fresh` lasts, the last report is the newest accepted there and
  nothing late for that workspace is newer: what arrives late is ignored. For the
  next number to be newer as well it rests on `SeqInv`, and so on `ClockTrusted`.
- `DaemonProofs!DaemonImplementsView`, for `ViewSpec`: the initial states map
  to initial states, and each action to a step of `SidebarView` or to none. That
  a `Show` finds the other rows gone is what `RowsIInv` is needed for: a report
  goes out only after the stale workspaces were cleared, and those are all that
  had rows unless `tainted` or `renamed` says otherwise. It rests on
  `ClockTrusted` like the two above.
- `DaemonProofs!DaemonIsReportLoop` and `HandoffProofs!EveryProcessIsReportLoop`:
  the daemon, and each process of the composition, implements `ReportLoop`. `phase`
  is read off `pc` and `stage`; everything from the list to the next socket check
  is one place of it, and `Counted` is not needed, since `misses` is `failures`.
- `SingletonLockProofs`: `LockTypes`, `LockIsKept` (for `LockLasts`), `LockExcludes`,
  `PidsAreRight`, `OnlyTheLivingRefuse`. `LockInv` ties holder, open file and path together: a
  process past `acquire` owns the file it has open, an owner has it open, and
  while nobody removes it the path names it.
- `HandoffProofs`. `HandoffUsesTheLock`: every behaviour of the composition is one
  of `SingletonLock`, so the lock's theorems hold of it. `HandoffHasTypes`.
  `HookLeavesSomebody`, for `SomebodyStays`: `Manned` adds that nobody is stopping
  and that the socket is there, because whoever turns a hook away has to stay.
  `HooksDoNotDouble`, for `HooksNeverDouble`: all hooks use one path (`Hooked`),
  and the lock lets one process through on each.
- `ConfigWatcherProofs`: `WatcherTypes`, and `EditsAreNotMissed` under
  `CalmAndFine`: every write has a timestamp of its own and the file is quiet
  between main.rs:71 and main.rs:87. Both are needed; see the hazards.
- `ConfigLayersProofs`: `SettingsInRange`, `FlagsCannotBeTakenAway`,
  `PrintRoundTrips`, `ReloadsAreLocal`, `TemplateNeedsForce`, for any files, command
  lines and plain keys, and `DefaultTtlIsEnough`: a ttl nobody chose outlasts two
  intervals (`RowsOutliveATick`, which no run checks). They share `LayersInv`: the
  settings are `resolve` of this process's flags and the layer it last took up,
  what was printed is in range and has its flags in it, and a file that stood
  since the start is there when the template is written. Most of the work is in
  lemmas about `resolve`: in range for every input, the same on layers that agree
  on `Sources(k)`, and the identity on what `to_file_config` printed.
- `SidebarTokensProofs`: `TokenTypes`; `ReportNamesEachKeyOnce`; `HistoryHasNoGaps` (the history is a run
  of sample numbers that ends at the last); `HistoryEndsNow`, for
  `HistoryShowsNow`, under `HistoryFits`; `LevelsDoNotFlicker` (a turn records the
  value at which the level last changed, and the level bounds it against the
  thresholds), `OneReportIsShown`, and `NoReadingIsCut` under `ReadingsLeaveRoom`:
  the texts leave room for a bar without cells.
- `SamplingProofs`: `SamplesInRange`, for every memory and every counter that
  goes back, as long as shared memory is part of the page cache and that of the
  memory (`SamplingAssumption`); `SampleIsOfItsWindow`, for `ShownIsNow`, and
  `LoadForgetsOnce`, for `LoadCountsOnce`. `SampleInv` says what a window is
  between two snapshots (`Window`: the counters have gone on by what happened
  since), what a reading is (`Read`), that what was fed is published (`Fed`), and
  up to when the load was decayed (`Decayed`). `WatchEndsWhenAsked`, for
  `StopsWhenAsked`: once a line was drawn under a raised flag the loop can only be
  in its nap or past it (`Asked`).
- `SidebarWriterProofs`: `WriterTypes`, `NoHalfFile` (the temporary file is
  whole and synced when it is renamed), and, as long as the file can be read,
  `EditsAreKept` (a text without our rows is the last edit) and `LayoutsAreLeft`
  for `LayoutsStand` (`Untouched`: a text nobody saved over since the recheck is
  the one the install read). Its types are proved and not checked.

### Progress

The prover knows neither ENABLED nor induction over a temporal formula. Each of
these theorems assumes `Spec /\ GoesOn` of its module: `GoesOn` is the weak fairness
of `FairSpec` with the guard of the step written out (`StepDue`, `Due`) where
WF has ENABLED. Where the guard enables the step, `GoesOn` is the weaker of the two;
that it does was checked with TLC, as an invariant on the instance of each run.

- `ConfigWatcherProofs!EditsGetThrough`, for `EditsTakeEffect`, under `CalmAndFine`:
  whatever the watcher was doing when the file came to rest, each of its steps
  brings the text nearer to the settings (`TextArrives`); `FollowInv` says that it
  has a step to make as long as the two differ.
- `SamplingProofs!ClosedWatchEnds`, for `ClosedTerminalEnds`: once the stdin
  thread has raised the flag, each place of the loop is strictly nearer to the end
  than the one before it (`Left`, from 7 to 0), and no step of anybody else takes
  that back.
- `DaemonProofs!StopComesNearer`, the step of an induction whose conclusion is
  `StopsWhenServerIsGone`. `Left` bounds the steps to the end: the rounds the
  daemon can still make, one for each failure it has left, one for the baseline
  and one for each tick the run may still lose to a failing sampler, and the place
  within the round, in which each call not yet made counts. `StepIsNearer`: a step
  of the daemon decreases it while nobody serves. `NothingTakesBack`: no other
  step increases it. The theorem: for every n, from n + 1 the daemon comes to n or
  stops. It is about a clock that may do anything (`~SteadyClock`), because a
  steady one stops at the bound of the model and the daemon with it.
- `HandoffProofs!WhoStaysReports`: a process that is left alone with a server that
  serves, and whose ticks no longer slip, gets through `acquire` and reports again
  and again. `HookLeavesSomebody` says that there is somebody; that one and the
  same stays follows from counting the starts, which is not proved.

Only model-checked: `StopsWhenServerIsGone` and `ReportsKeepComing`, whose last
step is an induction over n, or over the starts and slips left, with a temporal
formula as its hypothesis: the induction theorems take an operator, which the
provers cannot instantiate. Every other property of every passing run is proved.

The rank shows one thing about the code that is easy to miss. A tick that cannot
sample returns before it lists (mod.rs:398-416), and neither counts as a failure
nor notices that nobody answers. Where no socket tells (Windows), a daemon whose
sampler fails for good never stops. `MaxEvents` bounds such ticks in the model,
and `Left` has to count them.

## What is not modelled

- The quotients of counters and the decays of the load: floating point. `Sampling`
  has the two numbers a percentage is made of, and which moments a decay covers.
- `colors.rs`, `resolve_color` and the colour flags (only the command line sets
  them), the glyphs, the texts of errors, the log and its timestamps: tables and
  wording, with no decision behind them that another part depends on.
- The platform layer below a reading: parsing `/proc`, the Mach and Win32 calls,
  joining the halves of a `FILETIME`. Which reads fail, what is subtracted from
  what, and the formula of each memory backend are in `Sampling`.
- Symbolic links and permissions in `replace_contents`; the leftover temporary
  file of a killed install.
- The pipes of a child process (see the hazard at cli.rs:190).
- Scheduling to the millisecond: one interval is one unit of time.
- `validate` and `is_valid_key`, which only tests call.

Assumed where the models say nothing else: every server of `Handoff` listens at
the same socket path, as a live handoff requires; the machine of `Sampling` has
one core, so that a slice of time is a tick of one counter.

## Plan

Done, in this order: `Herdr` and `Daemon` with their proofs, `SingletonLock`,
`ConfigWatcher`, `SidebarTokens`, `SidebarWriter`; then `SidebarView` and the
refinement, `Handoff`, `ConfigLayers` and `Sampling`, each with its proofs; then `RowsLast`, the theorems
of progress, and `ReportLoop`.

Left:

1. The client's processes: a child that fills its pipe while `wait_with_timeout`
   waits for it (cli.rs:190), as a module under `Daemon`.
2. Two daemons over one server with their rows: `Handoff` says who reports, and
   `Daemon` what one of them reports; what the rows of the old one do to the
   first tick of the new one is in neither.
