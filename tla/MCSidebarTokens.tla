--------------------------- MODULE MCSidebarTokens ---------------------------
(* Small instances of SidebarTokens for TLC.                               *)
EXTENDS SidebarTokens, TLC

Each(x) == [m \in Metric |-> x]
MCMargin == [cpu |-> 2, mem |-> 2, load |-> 1]

(* The load falls as the CPU rises; the memory stays where it is.          *)
MCSample ==
  {[value   |-> [cpu |-> c, mem |-> 3, load |-> 6 - c],
    trimmed |-> [cpu |-> 2, mem |-> 4, load |-> 1],
    full    |-> [cpu |-> 3, mem |-> 4, load |-> 2]] : c \in 0 .. 6}

Options(warn, hot, lines, style, averages, capacity) ==
  [warn |-> Each(warn), hot |-> Each(hot), lines |-> Each(lines),
   style |-> style, averages |-> averages, capacity |-> capacity]

MCSetting ==
  {Options(3, 5, 4, "classic", TRUE, 2), Options(2, 4, 0, "blocks", FALSE, 0),
   Options(4, 4, 9, "blocks", TRUE, 3), Options(3, 5, 1, "vertical", TRUE, 1)}
=============================================================================
