----------------------------- MODULE SidebarView -----------------------------
(***************************************************************************)
(* What the daemon promises to whoever looks at the sidebar: the abstract  *)
(* specification that module Daemon implements.                            *)
(*                                                                         *)
(* It knows nothing of calls, sequence numbers, failures or processes.     *)
(* The plugin looks at the workspaces once, all at the same moment, and    *)
(* decides where its rows belong.  Then rows are taken away elsewhere and  *)
(* renewed there, and no row is put up before the others are gone, unless  *)
(* something out of the plugin's hands went wrong within the last ttl.     *)
(***************************************************************************)
EXTENDS Integers

CONSTANTS
  Workspace,  (* The workspaces that may ever be open.                     *)
  Source,     (* The source names the configuration may give the plugin.   *)
  Ttl,        (* How long rows last.                                       *)
  NoFocus     (* No workspace has the focus.                               *)

VARIABLES
  open,     (* The open workspaces.                                        *)
  focused,  (* The one that has the focus.                                 *)
  rows,     (* rows[w][s]: time to live of the rows of s on w.             *)
  options,  (* The scope and the source the plugin runs with.              *)
  aims,     (* Where the plugin decided that its rows belong.              *)
  grace,    (* How long rows elsewhere are excused.                        *)
  owed      (* Reports that were given up on may still take effect.        *)

view == <<open, focused, rows, options, aims, grace, owed>>

Options == [scope : {"All", "Focused"}, source : Source]

NoRows == [w \in Workspace |-> [s \in Source |-> 0]]

Init ==
  /\ rows = NoRows
  /\ options \in Options
  /\ aims = {}
  /\ grace = 0
  /\ owed = FALSE

(* Where rows may belong: everywhere, or on the focused workspace, or, as  *)
(* long as nothing has the focus, where they are.                          *)
Belongs(w) ==
  \/ options.scope = "All"
  \/ focused = w
  \/ focused = NoFocus /\ w \in aims

(* Nothing but rows that are excused is up elsewhere.                      *)
Tidy == \A w \in open \ aims, s \in Source : rows[w][s] <= grace

-----------------------------------------------------------------------------
(* What the plugin does.                                                   *)

(* It looks, and decides.                                                  *)
Look ==
  /\ aims' \subseteq {w \in open : Belongs(w)}
  /\ options.scope = "All" => aims' = open
  /\ options.scope = "Focused" /\ focused # NoFocus => aims' = {focused}
  /\ UNCHANGED <<open, focused, rows, options, grace, owed>>

Show(w) ==
  /\ w \in aims
  /\ Tidy
  /\ rows' = [rows EXCEPT ![w][options.source] = Ttl]
  /\ UNCHANGED <<open, focused, options, aims, grace, owed>>

Clear(w) ==
  /\ w \notin aims
  /\ rows' = [rows EXCEPT ![w][options.source] = 0]
  /\ UNCHANGED <<open, focused, options, aims, grace, owed>>

(* Under another name it can no longer reach the rows it has up.           *)
Reload ==
  /\ options' \in Options
  /\ grace' = IF options'.source # options.source THEN Ttl ELSE grace
  /\ UNCHANGED <<open, focused, rows, aims, owed>>

-----------------------------------------------------------------------------
(* What happens to it.                                                     *)

Older(life, k) == IF life > k THEN life - k ELSE 0

Aged(k) == [w \in Workspace |-> [s \in Source |-> Older(rows[w][s], k)]]

TimePasses ==
  /\ rows' = Aged(1)
  /\ grace' = Older(grace, 1)
  /\ UNCHANGED <<open, focused, options, aims, owed>>

(* Workspaces come and go, their rows go with them, and the focus moves.   *)
UsersAct ==
  /\ rows' = [w \in Workspace |->
                IF w \in open \ open' THEN [s \in Source |-> 0] ELSE rows[w]]
  /\ UNCHANGED <<options, aims, grace, owed>>

(* A report that takes rows away fails, or any report may come late.       *)
Mishap ==
  /\ grace' \in {grace, Ttl}
  /\ owed' \in {owed, TRUE}
  /\ UNCHANGED <<open, focused, rows, options, aims>>

(* A late report takes effect, perhaps, and was perhaps the last.          *)
Straggle ==
  /\ owed
  /\ owed' \in BOOLEAN
  /\ \/ UNCHANGED rows
     \/ \E w \in open, s \in Source, life \in {0, Ttl} :
          /\ rows' = [rows EXCEPT ![w][s] = life]
          /\ life = Ttl =>
               (w \in aims /\ s = options.source) \/ grace' = Ttl
  /\ grace' \in {grace, Ttl}
  /\ UNCHANGED <<open, focused, options, aims>>

(* It is started again and knows nothing of the rows there are.            *)
Restart ==
  /\ options' \in Options
  /\ \E k \in 0 .. Ttl : rows' = Aged(k)
  /\ aims' = {}
  /\ grace' = Ttl
  /\ UNCHANGED <<open, focused, owed>>

-----------------------------------------------------------------------------
Next ==
  \/ Look
  \/ \E w \in Workspace : Show(w) \/ Clear(w)
  \/ Reload
  \/ TimePasses
  \/ UsersAct
  \/ Mishap
  \/ Straggle
  \/ Restart

Spec == Init /\ [][Next]_view
=============================================================================
