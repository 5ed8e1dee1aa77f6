--------------------------- MODULE MCConfigLayers ---------------------------
(***************************************************************************)
(* An instance of ConfigLayers: files and command lines that reach every   *)
(* branch of the merge and every mode, with 32-bit numbers.                *)
(***************************************************************************)
EXTENDS ConfigLayers, TLC

MCPlain      == {"verbose"}
MCThreshold  == {"load_hot"}
MCPlainValue == {"no", "yes"}
MCPlainDefault == [k \in MCPlain \cup MCThreshold |-> "no"]

Bare == [given |-> NoKeys, vertical_graph |-> FALSE, located |-> TRUE,
         write_default_config |-> FALSE, force |-> FALSE,
         write_sidebar_rows |-> FALSE, print_config |-> FALSE,
         daemon |-> FALSE, watch |-> FALSE]

Interval3 == "interval_secs" :> 3 @@ "graph_lines" :> 12

MCFiles ==
  { NoKeys,
    "interval_secs" :> 5,
    "interval_secs" :> 100000 @@ "ttl_ms" :> 0,
    "graph_lines" :> 400 @@ "averages_count" :> 9,
    "graph_lines" :> 8 @@ "load_graph_lines" :> 6,
    "mem_graph_lines" :> 400,
    "graph_style" :> "classic" @@ "verbose" :> "yes" @@ "load_hot" :> "yes",
    "history" :> 7 }

MCCommandLines ==
  { Bare,
    [Bare EXCEPT !.write_default_config = TRUE, !.write_sidebar_rows = TRUE],
    [Bare EXCEPT !.write_default_config = TRUE, !.force = TRUE],
    [Bare EXCEPT !.write_sidebar_rows = TRUE, !.print_config = TRUE],
    [Bare EXCEPT !.print_config = TRUE, !.daemon = TRUE],
    [Bare EXCEPT !.print_config = TRUE, !.given = Interval3],
    [Bare EXCEPT !.print_config = TRUE, !.given = "history" :> 2000000000],
    [Bare EXCEPT !.watch = TRUE, !.vertical_graph = TRUE],
    [Bare EXCEPT !.daemon = TRUE],
    [Bare EXCEPT !.daemon = TRUE, !.given = Interval3],
    [Bare EXCEPT !.daemon = TRUE, !.given = "verbose" :> "yes" @@ "ttl_ms" :> 9000],
    [Bare EXCEPT !.daemon = TRUE, !.located = FALSE] }
=============================================================================
