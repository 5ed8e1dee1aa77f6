---------------------------- MODULE ConfigLayers ----------------------------
(***************************************************************************)
(* One run of the program after another, from its command line to the      *)
(* settings it works with: `main` of src/src/main.rs, the arguments of     *)
(* src/src/cli.rs and the merge of src/src/config.rs, with a user who      *)
(* edits, deletes and regenerates the configuration file meanwhile.        *)
(*                                                                         *)
(*   off -> parsed -> off            print, rows, template refused, once   *)
(*                 -> writing -> off template                              *)
(*                 -> watch -> off                                         *)
(*                 -> daemon -> off  with any number of polls              *)
(*                                                                         *)
(* A layer (the flags, a file, a whole FileConfig) is a function from the  *)
(* keys that are set, and the settings are a function from all keys.       *)
(* A poll compares texts here: what the fingerprint of a file misses is    *)
(* the subject of module ConfigWatcher.                                    *)
(***************************************************************************)
EXTENDS Integers

CONSTANTS
  Plain,          (* source, workspaces, mem_mode, cpu_mode, verbose.      *)
  Threshold,      (* The keys of FileThresholds.                           *)
  PlainValue,     (* The values of plain keys and thresholds.              *)
  PlainDefault,   (* PlainDefault[k]: the default of such a key.           *)
  MaxTomlInteger, (* The largest integer TOML holds, 2^63 - 1.             *)
  Files,          (* What the user may save: layers.                       *)
  CommandLines    (* How the user may start the program.                   *)

Number == {"interval_secs", "ttl_ms", "averages_count", "history",
           "graph_lines", "mem_graph_lines", "load_graph_lines"}
Style  == {"classic", "blocks", "vertical"}
Key    == Number \cup {"graph_style"} \cup Plain \cup Threshold

DEFAULT_INTERVAL_SECS    == 1
MAX_INTERVAL_SECS        == 3600
MIN_TTL_MS               == 1
MAX_TTL_MS               == 86400000
DEFAULT_GRAPH_LINES      == 10
DEFAULT_LOAD_GRAPH_LINES == 4
DEFAULT_HISTORY_LEN      == 20
MAX_GRAPH_LINES          == 64
DEFAULT_AVERAGES_COUNT   == 3

Values(k) == IF k \in Number THEN Nat
             ELSE IF k = "graph_style" THEN Style ELSE PlainValue

(* What serde lets through: FileConfig and FileThresholds.                 *)
IsLayer(f) ==
  /\ f = [k \in DOMAIN f |-> f[k]]
  /\ DOMAIN f \subseteq Key
  /\ \A k \in DOMAIN f : f[k] \in Values(k)

(* What a key may be in the end: the ranges herdr and a sidebar accept.    *)
Bounded == [ interval_secs    |-> 1 .. MAX_INTERVAL_SECS,
             ttl_ms           |-> MIN_TTL_MS .. MAX_TTL_MS,
             graph_lines      |-> 0 .. MAX_GRAPH_LINES,
             mem_graph_lines  |-> 0 .. MAX_GRAPH_LINES,
             load_graph_lines |-> 0 .. MAX_GRAPH_LINES,
             averages_count   |-> 0 .. 3 ]

Accepted(k) == IF k \in DOMAIN Bounded THEN Bounded[k] ELSE Values(k)

(* What clap lets through: Cli with DaemonFlags.  `given` are the options  *)
(* with a value and --verbose (never FALSE); `located`: --config or the    *)
(* environment names a file.                                               *)
IsCommandLine(c) ==
  /\ IsLayer(c.given)
  /\ DOMAIN c.given \cap Threshold = {}
  /\ \A k \in DOMAIN c.given : c.given[k] \in Accepted(k)
  /\ c.vertical_graph \in BOOLEAN /\ c.located \in BOOLEAN
  /\ c.write_default_config \in BOOLEAN /\ c.force \in BOOLEAN
  /\ c.write_sidebar_rows \in BOOLEAN /\ c.print_config \in BOOLEAN
  /\ c.daemon \in BOOLEAN /\ c.watch \in BOOLEAN

ASSUME LayersAssumption ==
  /\ (Plain \cup Threshold) \cap (Number \cup {"graph_style"}) = {}
  /\ \A k \in Plain \cup Threshold : PlainDefault[k] \in PlainValue
  /\ MaxTomlInteger \in Nat
  /\ \A f \in Files : IsLayer(f)
  /\ \A c \in CommandLines : IsCommandLine(c)

NoKeys == [k \in {} |-> 0]

(* The file: not there, one that load returns Err for, or one that parses. *)
NoFile  == [is |-> "none", sets |-> NoKeys]
Broken  == [is |-> "broken", sets |-> NoKeys]
Text(f) == [is |-> "text", sets |-> f]

VARIABLES
  disk,      (* The configuration file.                                    *)
  stage,     (* Where the run is.                                          *)
  cli,       (* Its command line.                                          *)
  settings,  (* What it works with, while it watches or is a daemon.       *)
  seen,      (* ConfigWatcher.seen.                                        *)
  used,      (* Observer: the layer of the file `settings` came from.      *)
  shown,     (* Observer: the last print, its flags and settings, if any.  *)
  standing   (* Observer: there was a file all the time since the start.   *)

runVars  == <<settings, seen, used>>
fileVars == <<disk, standing>>
vars == <<fileVars, stage, cli, runVars, shown>>

IsSettings(s) ==
  /\ s = [k \in Key |-> s[k]]
  /\ \A k \in Key : s[k] \in Accepted(k)

IsContent(d) == d \in {NoFile, Broken} \/ (d = Text(d.sets) /\ IsLayer(d.sets))

Running == stage \in {"watch", "daemon"}

(***************************************************************************)
(* What the program works with stays inside the ranges herdr and a sidebar *)
(* accept, whatever a file asks for (config.rs:487-505, 568-571).          *)
(***************************************************************************)
SettingsTypeOK ==
  /\ IsContent(disk)
  /\ stage \in {"off", "parsed", "writing", "watch", "daemon"}
  /\ cli \in CommandLines
  /\ IF Running THEN IsSettings(settings) ELSE settings = NoKeys
  /\ IsContent(seen)
  /\ IsLayer(used)
  /\ \A s \in shown : IsLayer(s.flags) /\ IsSettings(s.settings)
  /\ standing \in BOOLEAN

-----------------------------------------------------------------------------
(* The merge.                                                              *)

Smaller(a, b) == IF a < b THEN a ELSE b
Clamp(n, low, high) == IF n < low THEN low ELSE Smaller(n, high)

(* Seeded fault: the file wins over the flags.                             *)
OverReversed(high, low) ==
  [k \in DOMAIN high \cup DOMAIN low |->
     IF k \in DOMAIN low THEN low[k] ELSE high[k]]

(* a.or(b), key by key.                                                    *)
Over(high, low) ==
  [k \in DOMAIN high \cup DOMAIN low |->
     IF k \in DOMAIN high THEN high[k] ELSE low[k]]

(* The flags as a layer: -v is a graph style nothing overrides.            *)
Flags(c) ==
  IF c.vertical_graph
  THEN Over([k \in {"graph_style"} |-> "vertical"], c.given) ELSE c.given

(* `given`, from here on, is the flags over the file.                      *)
Given(given, k, default) == IF k \in DOMAIN given THEN given[k] ELSE default

Interval(given) ==
  Clamp(Given(given, "interval_secs", DEFAULT_INTERVAL_SECS),
        1, MAX_INTERVAL_SECS)

default_ttl_ms(secs) == 2 * 1000 * secs + 1000

Ttl(given) ==
  Clamp(Given(given, "ttl_ms", default_ttl_ms(Interval(given))),
        MIN_TTL_MS, MAX_TTL_MS)

(* set_graph_lines with a fallback.                                        *)
SetGraphLines(given, default) ==
  IF "graph_lines" \in DOMAIN given
  THEN Smaller(given["graph_lines"], MAX_GRAPH_LINES) ELSE default

GraphLines(given) == SetGraphLines(given, DEFAULT_GRAPH_LINES)

(* Seeded fault: the width a file asks for is the width it gets.           *)
MemGraphLinesUnbounded(given) ==
  Given(given, "mem_graph_lines", GraphLines(given))

MemGraphLines(given) ==
  Smaller(Given(given, "mem_graph_lines", GraphLines(given)), MAX_GRAPH_LINES)

(* Seeded fault: the load bar follows the memory bar.                      *)
LoadGraphLinesOfMemory(given) ==
  Smaller(Given(given, "load_graph_lines", MemGraphLines(given)), MAX_GRAPH_LINES)

LoadGraphLines(given) ==
  Smaller(Given(given, "load_graph_lines",
                SetGraphLines(given, DEFAULT_LOAD_GRAPH_LINES)),
          MAX_GRAPH_LINES)

History(given) ==
  Given(given, "history", SetGraphLines(given, DEFAULT_HISTORY_LEN))

Fallback(c) == IF c.daemon THEN "blocks" ELSE "classic"

AveragesCount(given) ==
  Smaller(Given(given, "averages_count", DEFAULT_AVERAGES_COUNT), 3)

(* The settings that are not a key of `given` or its default alone.        *)
Derived(c, given) ==
  [ interval_secs    |-> Interval(given),
    ttl_ms           |-> Ttl(given),
    graph_lines      |-> GraphLines(given),
    mem_graph_lines  |-> MemGraphLines(given),
    load_graph_lines |-> LoadGraphLines(given),
    history          |-> History(given),
    averages_count   |-> AveragesCount(given),
    graph_style      |-> Given(given, "graph_style", Fallback(c)) ]

resolve(c, file) ==
  LET given   == Over(Flags(c), file)
      derived == Derived(c, given)
  IN [k \in Key |-> IF k \in DOMAIN derived
                    THEN derived[k] ELSE Given(given, k, PlainDefault[k])]

(* Seeded fault: a key added to the settings is not printed.               *)
to_file_config_without(s) == [k \in Key \ {"load_graph_lines"} |-> s[k]]

(* to_file_config: every key, spelled out.                                 *)
to_file_config(s) == [k \in Key |-> s[k]]

(* to_toml fails on an integer TOML cannot hold.                           *)
to_toml_holds(s) == s["history"] <= MaxTomlInteger

(* load_or_warn: without a file, or with one in error, nothing is set.     *)
load_or_warn == IF cli.located THEN disk.sets ELSE NoKeys

-----------------------------------------------------------------------------
(* A run of the program.                                                   *)

Init ==
  /\ disk \in {NoFile, Broken} \cup {Text(f) : f \in Files}
  /\ stage = "off"
  /\ cli \in CommandLines
  /\ settings = NoKeys
  /\ seen = NoFile
  /\ used = NoKeys
  /\ shown = {}
  /\ standing = FALSE

Start ==
  /\ stage = "off"
  /\ stage' = "parsed"
  /\ cli' \in CommandLines
  /\ standing' = (disk # NoFile)
  /\ UNCHANGED <<disk, runVars, shown>>

(* Seeded fault: the template is written over whatever is there.           *)
CheckTargetNever ==
  /\ stage = "parsed"
  /\ cli.write_default_config
  /\ stage' = IF cli.located THEN "writing" ELSE "off"
  /\ UNCHANGED <<fileVars, cli, runVars, shown>>

(* write_default_config, up to `exists`.                                   *)
CheckTarget ==
  /\ stage = "parsed"
  /\ cli.write_default_config
  /\ stage' = IF cli.located /\ (cli.force \/ disk = NoFile)
              THEN "writing" ELSE "off"
  /\ UNCHANGED <<fileVars, cli, runVars, shown>>

(* write_default_config, the write, or the directory that cannot be made.  *)
(* Every key of the template is commented out.                             *)
WriteTemplate ==
  /\ stage = "writing"
  /\ stage' = "off"
  /\ disk' \in {disk, Text(NoKeys)}
  /\ UNCHANGED <<standing, cli, runVars, shown>>

(* write_sidebar_rows is about another file: module SidebarWriter.         *)
WriteRows ==
  /\ stage = "parsed"
  /\ ~cli.write_default_config /\ cli.write_sidebar_rows
  /\ stage' = "off"
  /\ UNCHANGED <<fileVars, cli, runVars, shown>>

(* The modes from here on read the file.                                   *)
Reads ==
  stage = "parsed" /\ ~cli.write_default_config /\ ~cli.write_sidebar_rows

PrintConfig ==
  /\ Reads
  /\ cli.print_config
  /\ LET s == resolve(cli, load_or_warn) IN
       shown' = IF to_toml_holds(s)
                THEN {[flags |-> Flags(cli), settings |-> s]} ELSE shown
  /\ stage' = "off"
  /\ UNCHANGED <<fileVars, cli, runVars>>

(* args.settings(), and for the daemon ConfigWatcher::new.                 *)
Resident ==
  /\ Reads
  /\ ~cli.print_config
  /\ cli.daemon \/ cli.watch
  /\ stage' = IF cli.daemon THEN "daemon" ELSE "watch"
  /\ used' = load_or_warn
  /\ settings' = resolve(cli, used')
  /\ seen' = IF cli.daemon /\ cli.located THEN disk ELSE NoFile
  /\ UNCHANGED <<fileVars, cli, shown>>

(* One line is printed from the settings, or sampling fails.               *)
Once ==
  /\ Reads
  /\ ~cli.print_config /\ ~cli.daemon /\ ~cli.watch
  /\ stage' = "off"
  /\ UNCHANGED <<fileVars, cli, runVars, shown>>

(* poll: a file in error leaves the settings as they are.                  *)
Poll ==
  /\ stage = "daemon"
  /\ cli.located
  /\ disk # seen
  /\ seen' = disk
  /\ used' = IF disk = Broken THEN used ELSE disk.sets
  /\ settings' = IF disk = Broken THEN settings ELSE resolve(cli, disk.sets)
  /\ UNCHANGED <<fileVars, stage, cli, shown>>

Quit ==
  /\ Running
  /\ stage' = "off"
  /\ settings' = NoKeys
  /\ seen' = NoFile
  /\ used' = NoKeys
  /\ UNCHANGED <<fileVars, cli, shown>>

-----------------------------------------------------------------------------
(* The user.                                                               *)

Save ==
  /\ disk' \in {Broken} \cup {Text(f) : f \in Files}
  /\ UNCHANGED <<standing, stage, cli, runVars, shown>>

(* What --print-config said becomes the file.                              *)
SavePrinted ==
  /\ \E s \in shown : disk' = Text(to_file_config(s.settings))
  /\ UNCHANGED <<standing, stage, cli, runVars, shown>>

Delete ==
  /\ disk' = NoFile
  /\ standing' = FALSE
  /\ UNCHANGED <<stage, cli, runVars, shown>>

Next ==
  \/ Start \/ CheckTarget \/ WriteTemplate \/ WriteRows
  \/ PrintConfig \/ Resident \/ Once \/ Poll \/ Quit
  \/ Save \/ SavePrinted \/ Delete

Spec == Init /\ [][Next]_vars

-----------------------------------------------------------------------------
(* Properties.                                                             *)

(***************************************************************************)
(* A flag passed at startup cannot be taken away by editing the file       *)
(* underneath the process (config.rs:281-284, README.md:252-254).          *)
(***************************************************************************)
FlagsStand ==
  Running => \A k \in DOMAIN Flags(cli) : settings[k] = Flags(cli)[k]

(***************************************************************************)
(* Unless somebody chose a ttl, the rows outlive the wait for the report   *)
(* after the next, at every interval a file may ask for (mod.rs:119-125,   *)
(* config.rs:487-490).                                                     *)
(***************************************************************************)
RowsOutliveATick ==
  Running /\ "ttl_ms" \notin DOMAIN Flags(cli) \cup DOMAIN used
    => settings["ttl_ms"] > 2 * 1000 * settings["interval_secs"]

(***************************************************************************)
(* A file that holds what --print-config printed gives the settings it     *)
(* showed, to a process started later or reloading, with all of the flags  *)
(* of the print or fewer (config.rs:448-480, the test at config.rs:995).   *)
(***************************************************************************)
PrintedStands ==
  \A s \in shown :
    /\ Running
    /\ used = to_file_config(s.settings)
    /\ \A k \in DOMAIN Flags(cli) :
         k \in DOMAIN s.flags /\ Flags(cli)[k] = s.flags[k]
    => settings = s.settings

(* The keys of a file a setting is made from.                              *)
Followers == [ interval_secs |-> {"ttl_ms"},
               graph_lines   |-> {"mem_graph_lines", "load_graph_lines", "history"} ]

Sources(k) == {k} \cup {j \in DOMAIN Followers : k \in Followers[j]}

Line(f, k) == IF k \in DOMAIN f THEN {f[k]} ELSE {}

(***************************************************************************)
(* A reload changes a setting only for an edit to a key it is made from,   *)
(* and only when no flag stands for that key: to set the load bar moves no *)
(* other bar (config.rs:494-513).                                          *)
(***************************************************************************)
EditsStayLocal ==
  [][stage = "daemon" /\ stage' = "daemon" =>
       \A k \in Key : settings'[k] # settings[k] =>
         \E j \in Sources(k) \ DOMAIN Flags(cli) :
           Line(used', j) # Line(used, j)]_vars

(***************************************************************************)
(* Without --force the template never replaces a file that has been there  *)
(* since the program started (config.rs:622-634).                          *)
(***************************************************************************)
TemplateSpares ==
  [][stage = "writing" /\ stage' = "off" /\ disk' # disk /\ standing
       => cli.force]_vars
=============================================================================
