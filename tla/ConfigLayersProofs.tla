------------------------- MODULE ConfigLayersProofs -------------------------
(***************************************************************************)
(* What module ConfigLayers promises, for every set of files and command   *)
(* lines: lemmas about the merge first, then an invariant that ties the    *)
(* settings of a process to its flags and the file it read.                *)
(***************************************************************************)
EXTENDS ConfigLayers, TLAPS

(* The bounds leave room for the ttl of the longest interval.              *)
LEMMA BoundsOfSettings ==
  /\ MAX_INTERVAL_SECS \in Nat /\ MAX_TTL_MS \in Nat /\ MAX_GRAPH_LINES \in Nat
  /\ MIN_TTL_MS = 1 /\ DEFAULT_INTERVAL_SECS = 1 /\ 1 <= MAX_INTERVAL_SECS
  /\ MIN_TTL_MS <= MAX_TTL_MS
  /\ 2 * 1000 * MAX_INTERVAL_SECS + 1000 <= MAX_TTL_MS
  /\ DEFAULT_GRAPH_LINES \in 0 .. MAX_GRAPH_LINES
  /\ DEFAULT_LOAD_GRAPH_LINES \in 0 .. MAX_GRAPH_LINES
  /\ DEFAULT_HISTORY_LEN \in 0 .. MAX_GRAPH_LINES
  /\ DEFAULT_AVERAGES_COUNT = 3
  BY SMT DEF DEFAULT_INTERVAL_SECS, MAX_INTERVAL_SECS, MIN_TTL_MS, MAX_TTL_MS,
             DEFAULT_GRAPH_LINES, DEFAULT_LOAD_GRAPH_LINES,
             DEFAULT_HISTORY_LEN, MAX_GRAPH_LINES, DEFAULT_AVERAGES_COUNT

-----------------------------------------------------------------------------
(* Layers.                                                                 *)

(* A layer that sets nothing is one.                                       *)
LEMMA NoKeysIsLayer == IsLayer(NoKeys)
  BY DEF NoKeys, IsLayer

(* A layer over a layer is a layer of the keys of both.                    *)
LEMMA OverIsLayer ==
  ASSUME NEW f, NEW g, IsLayer(f), IsLayer(g)
  PROVE  /\ IsLayer(Over(f, g))
         /\ DOMAIN Over(f, g) = DOMAIN f \cup DOMAIN g
         /\ \A k \in DOMAIN f : Over(f, g)[k] = f[k]
         /\ \A k \in DOMAIN g \ DOMAIN f : Over(f, g)[k] = g[k]
  BY DEF IsLayer, Over

(* Every key is a number, the style, or one of the plain ones.             *)
LEMMA KindsOfKeys ==
  ASSUME NEW k \in Plain \cup Threshold
  PROVE  /\ k \in Key /\ k \notin Number /\ k # "graph_style"
         /\ Values(k) = PlainValue /\ Accepted(k) = PlainValue
         /\ PlainDefault[k] \in PlainValue
  BY LayersAssumption DEF Key, Number, Values, Accepted, Bounded

(* What a key is accepted with is a value of it.                           *)
LEMMA AcceptedAreValues ==
  ASSUME NEW k \in Key PROVE Accepted(k) \subseteq Values(k)
  BY BoundsOfSettings DEF Accepted, Bounded, Values, Number

(* The flags are a layer of accepted values.                               *)
LEMMA FlagsAreLayer ==
  ASSUME NEW c \in CommandLines
  PROVE  /\ IsLayer(Flags(c))
         /\ \A k \in DOMAIN Flags(c) : k \in Key /\ Flags(c)[k] \in Accepted(k)
  <1> DEFINE style == [k \in {"graph_style"} |-> "vertical"]
  <1>1. IsCommandLine(c)
    BY LayersAssumption
  <1>2. "graph_style" \in Key /\ Accepted("graph_style") = Style
        /\ Values("graph_style") = Style /\ "vertical" \in Style
    BY DEF Key, Accepted, Bounded, Values, Style, Number
  <1>3. IsLayer(style)
    BY <1>2 DEF IsLayer
  <1>4. IsLayer(c.given) /\ \A k \in DOMAIN c.given : c.given[k] \in Accepted(k)
    BY <1>1 DEF IsCommandLine
  <1>5. DOMAIN c.given \subseteq Key
    BY <1>4 DEF IsLayer
  <1>6. CASE c.vertical_graph
    <2>1. Flags(c) = Over(style, c.given)
      BY <1>6 DEF Flags
    <2>2. /\ IsLayer(Over(style, c.given))
          /\ DOMAIN Over(style, c.given) = {"graph_style"} \cup DOMAIN c.given
          /\ Over(style, c.given)["graph_style"] = "vertical"
          /\ \A k \in DOMAIN c.given \ {"graph_style"} :
               Over(style, c.given)[k] = c.given[k]
      <3>1. DOMAIN style = {"graph_style"} /\ style["graph_style"] = "vertical"
        OBVIOUS
      <3>2. /\ IsLayer(Over(style, c.given))
            /\ DOMAIN Over(style, c.given) = DOMAIN style \cup DOMAIN c.given
            /\ \A k \in DOMAIN style : Over(style, c.given)[k] = style[k]
            /\ \A k \in DOMAIN c.given \ DOMAIN style :
                 Over(style, c.given)[k] = c.given[k]
        <4> HIDE DEF style
        <4> QED BY <1>3, <1>4, OverIsLayer
      <3> QED BY <3>1, <3>2
    <2> QED BY <2>1, <2>2, <1>2, <1>4, <1>5
  <1>7. CASE ~c.vertical_graph
    BY <1>7, <1>4, <1>5 DEF Flags
  <1> QED BY <1>6, <1>7

-----------------------------------------------------------------------------
(* The merge.                                                              *)

(* A clamped number is between its bounds, and itself if it was.           *)
LEMMA ClampBounds ==
  ASSUME NEW n \in Int, NEW low \in Int, NEW high \in Int, low <= high
  PROVE  /\ Clamp(n, low, high) \in low .. high
         /\ n \in low .. high => Clamp(n, low, high) = n
  BY DEF Clamp, Smaller

(* A key of a layer has its value, another the default.                    *)
LEMMA GivenValue ==
  ASSUME NEW f, IsLayer(f), NEW k \in Key, NEW default \in Values(k)
  PROVE  Given(f, k, default) \in Values(k)
  BY DEF IsLayer, Given

(* The values of the keys the merge computes with.                         *)
LEMMA NumbersAreNat == \A k \in Number : k \in Key /\ Values(k) = Nat
  BY DEF Key, Values

(* What each step of the merge returns.                                    *)
LEMMA MergeRanges ==
  ASSUME NEW given, IsLayer(given)
  PROVE  /\ Interval(given) \in 1 .. MAX_INTERVAL_SECS
         /\ Ttl(given) \in MIN_TTL_MS .. MAX_TTL_MS
         /\ GraphLines(given) \in 0 .. MAX_GRAPH_LINES
         /\ MemGraphLines(given) \in 0 .. MAX_GRAPH_LINES
         /\ LoadGraphLines(given) \in 0 .. MAX_GRAPH_LINES
         /\ History(given) \in Nat
         /\ AveragesCount(given) \in 0 .. 3
  <1>1. \A k \in Number, d \in Nat : Given(given, k, d) \in Nat
    BY NumbersAreNat, GivenValue
  <1>2. \A d \in Nat : SetGraphLines(given, d) \in Nat
                       /\ (d <= MAX_GRAPH_LINES
                             => SetGraphLines(given, d) <= MAX_GRAPH_LINES)
    <2>1. "graph_lines" \in DOMAIN given => given["graph_lines"] \in Nat
      BY NumbersAreNat DEF IsLayer, Number
    <2> QED BY <2>1, BoundsOfSettings DEF SetGraphLines, Smaller
  <1>3. Interval(given) \in 1 .. MAX_INTERVAL_SECS
    BY <1>1, ClampBounds, BoundsOfSettings DEF Interval, Number
  <1>4. Ttl(given) \in MIN_TTL_MS .. MAX_TTL_MS
    <2>1. default_ttl_ms(Interval(given)) \in Nat
      BY <1>3, BoundsOfSettings DEF default_ttl_ms
    <2>2. Given(given, "ttl_ms", default_ttl_ms(Interval(given))) \in Nat
      BY <2>1, <1>1 DEF Number
    <2>3. MIN_TTL_MS \in Int /\ MAX_TTL_MS \in Int /\ MIN_TTL_MS <= MAX_TTL_MS
      BY BoundsOfSettings
    <2> QED BY <2>2, <2>3, BoundsOfSettings DEF Ttl, Clamp, Smaller
  <1>5. GraphLines(given) \in 0 .. MAX_GRAPH_LINES
    BY <1>2, BoundsOfSettings DEF GraphLines
  <1>6. MemGraphLines(given) \in 0 .. MAX_GRAPH_LINES
    <2>1. Given(given, "mem_graph_lines", GraphLines(given)) \in Nat
      BY <1>1, <1>5, BoundsOfSettings DEF Number
    <2> QED BY <2>1, BoundsOfSettings DEF MemGraphLines, Smaller
  <1>7. LoadGraphLines(given) \in 0 .. MAX_GRAPH_LINES
    <2>1. Given(given, "load_graph_lines",
                SetGraphLines(given, DEFAULT_LOAD_GRAPH_LINES)) \in Nat
      BY <1>1, <1>2, BoundsOfSettings DEF Number
    <2> QED BY <2>1, BoundsOfSettings DEF LoadGraphLines, Smaller
  <1>8. History(given) \in Nat
    BY <1>1, <1>2, BoundsOfSettings DEF History, Number
  <1>9. AveragesCount(given) \in 0 .. 3
    <2>1. Given(given, "averages_count", DEFAULT_AVERAGES_COUNT) \in Nat
      BY <1>1, BoundsOfSettings DEF Number
    <2> QED BY <2>1, BoundsOfSettings DEF AveragesCount, Smaller
  <1> QED BY <1>3, <1>4, <1>5, <1>6, <1>7, <1>8, <1>9

(* What the merge is, key by key.                                          *)
LEMMA ResolveKeys ==
  ASSUME NEW c, NEW file
  PROVE  LET given == Over(Flags(c), file)
             s == resolve(c, file) IN
         /\ s = [k \in Key |-> s[k]]
         /\ s["interval_secs"] = Interval(given)
         /\ s["ttl_ms"] = Ttl(given)
         /\ s["graph_lines"] = GraphLines(given)
         /\ s["mem_graph_lines"] = MemGraphLines(given)
         /\ s["load_graph_lines"] = LoadGraphLines(given)
         /\ s["history"] = History(given)
         /\ s["averages_count"] = AveragesCount(given)
         /\ s["graph_style"] = Given(given, "graph_style", Fallback(c))
         /\ \A k \in Plain \cup Threshold :
              s[k] = Given(given, k, PlainDefault[k])
  <1> DEFINE given == Over(Flags(c), file)
             s == resolve(c, file)
  <1>1. Number \cup {"graph_style"} \subseteq Key
    BY DEF Key
  <1>2. DOMAIN Derived(c, given) = Number \cup {"graph_style"}
    BY DEF Derived, Number
  <1>3. \A k \in Key : s[k] = IF k \in Number \cup {"graph_style"}
                               THEN Derived(c, given)[k]
                               ELSE Given(given, k, PlainDefault[k])
    BY <1>2 DEF resolve
  <1>4. s = [k \in Key |-> s[k]]
    BY DEF resolve
  <1>5. \A k \in Plain \cup Threshold : s[k] = Given(given, k, PlainDefault[k])
    <2> TAKE k \in Plain \cup Threshold
    <2>1. k \in Key /\ k \notin Number /\ k # "graph_style"
      BY KindsOfKeys
    <2> QED BY <2>1, <1>3
  <1>6. /\ s["interval_secs"] = Interval(given)
        /\ s["ttl_ms"] = Ttl(given)
        /\ s["graph_lines"] = GraphLines(given)
        /\ s["mem_graph_lines"] = MemGraphLines(given)
    BY <1>1, <1>3 DEF Number, Derived
  <1>7. /\ s["load_graph_lines"] = LoadGraphLines(given)
        /\ s["history"] = History(given)
        /\ s["averages_count"] = AveragesCount(given)
        /\ s["graph_style"] = Given(given, "graph_style", Fallback(c))
    BY <1>1, <1>3 DEF Number, Derived
  <1> QED BY <1>4, <1>5, <1>6, <1>7

(* The settings are always in range.                                       *)
LEMMA ResolveInRange ==
  ASSUME NEW c \in CommandLines, NEW file, IsLayer(file)
  PROVE  IsSettings(resolve(c, file))
  <1> DEFINE given == Over(Flags(c), file)
             s == resolve(c, file)
  <1>1. IsLayer(given)
    BY FlagsAreLayer, OverIsLayer
  <1>2. /\ Interval(given) \in 1 .. MAX_INTERVAL_SECS
        /\ Ttl(given) \in MIN_TTL_MS .. MAX_TTL_MS
        /\ GraphLines(given) \in 0 .. MAX_GRAPH_LINES
        /\ MemGraphLines(given) \in 0 .. MAX_GRAPH_LINES
        /\ LoadGraphLines(given) \in 0 .. MAX_GRAPH_LINES
        /\ History(given) \in Nat
        /\ AveragesCount(given) \in 0 .. 3
    BY <1>1, MergeRanges
  <1>3. \A k \in Number : s[k] \in Accepted(k)
    <2>1. /\ s["interval_secs"] = Interval(given)
          /\ s["ttl_ms"] = Ttl(given)
          /\ s["graph_lines"] = GraphLines(given)
          /\ s["mem_graph_lines"] = MemGraphLines(given)
          /\ s["load_graph_lines"] = LoadGraphLines(given)
          /\ s["history"] = History(given)
          /\ s["averages_count"] = AveragesCount(given)
      BY ResolveKeys
    <2>2. Values("history") = Nat
      BY DEF Values, Number
    <2>3. /\ s["interval_secs"] \in Accepted("interval_secs")
          /\ s["ttl_ms"] \in Accepted("ttl_ms")
          /\ s["graph_lines"] \in Accepted("graph_lines")
          /\ s["mem_graph_lines"] \in Accepted("mem_graph_lines")
          /\ s["load_graph_lines"] \in Accepted("load_graph_lines")
          /\ s["history"] \in Accepted("history")
          /\ s["averages_count"] \in Accepted("averages_count")
      <3> HIDE DEF s, given
      <3> QED BY <1>2, <2>1, <2>2 DEF Accepted, Bounded
    <2> QED BY <2>3 DEF Number
  <1>4. s["graph_style"] \in Accepted("graph_style")
    <2>1. "graph_style" \in Key /\ Values("graph_style") = Style
          /\ Accepted("graph_style") = Style /\ Fallback(c) \in Style
      BY DEF Key, Values, Number, Style, Fallback, Accepted, Bounded
    <2>2. Given(given, "graph_style", Fallback(c)) \in Style
      BY <1>1, <2>1, GivenValue
    <2> QED BY <2>1, <2>2, ResolveKeys
  <1>5. \A k \in Plain \cup Threshold : s[k] \in Accepted(k)
    <2> TAKE k \in Plain \cup Threshold
    <2>1. k \in Key /\ Values(k) = PlainValue /\ Accepted(k) = PlainValue
          /\ PlainDefault[k] \in PlainValue
      BY KindsOfKeys
    <2>2. Given(given, k, PlainDefault[k]) \in PlainValue
      BY <1>1, <2>1, GivenValue
    <2> QED BY <2>1, <2>2, ResolveKeys
  <1>6. s = [k \in Key |-> s[k]]
    BY ResolveKeys
  <1> QED BY <1>3, <1>4, <1>5, <1>6 DEF IsSettings, Key

(* A flag has the value the user passed.                                   *)
LEMMA ResolveKeepsFlags ==
  ASSUME NEW c \in CommandLines, NEW file, IsLayer(file),
         NEW k \in DOMAIN Flags(c)
  PROVE  resolve(c, file)[k] = Flags(c)[k]
  <1> DEFINE given == Over(Flags(c), file)
             s == resolve(c, file)
  <1>1. IsLayer(Flags(c)) /\ k \in Key /\ Flags(c)[k] \in Accepted(k)
    BY FlagsAreLayer
  <1>2. k \in DOMAIN given /\ given[k] = Flags(c)[k]
    BY <1>1, OverIsLayer
  <1>3. \A default : Given(given, k, default) = Flags(c)[k]
    BY <1>2 DEF Given
  <1>4. CASE k \in Plain \cup Threshold
    BY <1>4, <1>3, ResolveKeys
  <1>5. CASE k = "graph_style"
    BY <1>5, <1>3, ResolveKeys
  <1>6. CASE k \in Number
    <2> DEFINE v == Flags(c)[k]
    <2>1. CASE k = "interval_secs"
      <3>1. v \in 1 .. MAX_INTERVAL_SECS
        BY <2>1, <1>1 DEF Accepted, Bounded
      <3>2. Clamp(v, 1, MAX_INTERVAL_SECS) = v
        BY <3>1, BoundsOfSettings DEF Clamp, Smaller
      <3> QED BY <2>1, <3>2, <1>3, ResolveKeys DEF Interval
    <2>2. CASE k = "ttl_ms"
      <3>1. v \in MIN_TTL_MS .. MAX_TTL_MS
        BY <2>2, <1>1 DEF Accepted, Bounded
      <3>2. Clamp(v, MIN_TTL_MS, MAX_TTL_MS) = v
        BY <3>1, BoundsOfSettings DEF Clamp, Smaller
      <3> QED BY <2>2, <3>2, <1>3, ResolveKeys DEF Ttl
    <2>3. CASE k \in {"graph_lines", "mem_graph_lines", "load_graph_lines"}
      <3>1. v \in 0 .. MAX_GRAPH_LINES
        <4>1. Accepted(k) = 0 .. MAX_GRAPH_LINES
          <5>1. k \in DOMAIN Bounded /\ Bounded[k] = 0 .. MAX_GRAPH_LINES
            BY <2>3 DEF Bounded
          <5> QED BY <5>1 DEF Accepted
        <4> QED BY <4>1, <1>1
      <3>2. Smaller(v, MAX_GRAPH_LINES) = v
        BY <3>1, BoundsOfSettings DEF Smaller
      <3> QED BY <2>3, <3>2, <1>2, <1>3, ResolveKeys
              DEF GraphLines, SetGraphLines, MemGraphLines, LoadGraphLines
    <2>4. CASE k = "history"
      BY <2>4, <1>3, ResolveKeys DEF History
    <2>5. CASE k = "averages_count"
      <3>1. v \in 0 .. 3
        BY <2>5, <1>1 DEF Accepted, Bounded
      <3>2. Smaller(v, 3) = v
        BY <3>1 DEF Smaller
      <3> QED BY <2>5, <3>2, <1>3, ResolveKeys DEF AveragesCount
    <2> QED BY <1>6, <2>1, <2>2, <2>3, <2>4, <2>5 DEF Number
  <1> QED BY <1>1, <1>4, <1>5, <1>6 DEF Key

(* Without a ttl of its own the merge leaves room for two intervals.       *)
LEMMA ResolveTtl ==
  ASSUME NEW c \in CommandLines, NEW file, IsLayer(file),
         "ttl_ms" \notin DOMAIN Flags(c) \cup DOMAIN file
  PROVE  resolve(c, file)["ttl_ms"] > 2 * 1000 * resolve(c, file)["interval_secs"]
  <1> DEFINE given == Over(Flags(c), file)
             ttl == default_ttl_ms(Interval(given))
  <1>1. IsLayer(given) /\ "ttl_ms" \notin DOMAIN given
    BY FlagsAreLayer, OverIsLayer
  <1>2. Interval(given) \in 1 .. MAX_INTERVAL_SECS
    BY <1>1, MergeRanges
  <1>3. ttl \in MIN_TTL_MS .. MAX_TTL_MS /\ ttl > 2 * 1000 * Interval(given)
    BY <1>2, BoundsOfSettings DEF default_ttl_ms
  <1>4. Ttl(given) = Clamp(ttl, MIN_TTL_MS, MAX_TTL_MS)
    BY <1>1 DEF Ttl, Given
  <1>5. Ttl(given) = ttl
    BY <1>3, <1>4, ClampBounds, BoundsOfSettings
  <1> QED BY <1>3, <1>5, ResolveKeys

(* Settings that agree with the flags, written out in full and merged      *)
(* again, come back as they were.                                          *)
LEMMA ResolveRoundTrip ==
  ASSUME NEW c \in CommandLines, NEW s, IsSettings(s),
         \A k \in DOMAIN Flags(c) : s[k] = Flags(c)[k]
  PROVE  /\ IsLayer(to_file_config(s))
         /\ resolve(c, to_file_config(s)) = s
  <1> DEFINE file == to_file_config(s)
             given == Over(Flags(c), file)
             t == resolve(c, file)
  <1>1. file = s /\ DOMAIN s = Key /\ s = [k \in Key |-> s[k]]
    BY DEF IsSettings, to_file_config
  <1>2. \A k \in Key : s[k] \in Accepted(k) /\ s[k] \in Values(k)
    BY AcceptedAreValues DEF IsSettings
  <1>3. IsLayer(file)
    BY <1>1, <1>2 DEF IsLayer
  <1>4. \A k \in Key : k \in DOMAIN given /\ given[k] = s[k]
    <2>1. IsLayer(Flags(c))
      BY FlagsAreLayer
    <2>2. /\ DOMAIN given = DOMAIN Flags(c) \cup DOMAIN file
          /\ \A k \in DOMAIN Flags(c) : given[k] = Flags(c)[k]
          /\ \A k \in DOMAIN file \ DOMAIN Flags(c) : given[k] = file[k]
      <3> HIDE DEF file
      <3> QED BY <2>1, <1>3, OverIsLayer
    <2> HIDE DEF given
    <2> QED BY <2>2, <1>1
  <1>5. \A k \in Key : \A default : Given(given, k, default) = s[k]
    BY <1>4 DEF Given
  <1>6. \A k \in Plain \cup Threshold : t[k] = s[k]
    BY <1>5, KindsOfKeys, ResolveKeys
  <1>7. Number \cup {"graph_style"} \subseteq Key
    BY DEF Key
  <1>8. t["graph_style"] = s["graph_style"]
    BY <1>5, <1>7, ResolveKeys
  <1>9. \A k \in Number : t[k] = s[k]
    <2>1. /\ s["interval_secs"] \in 1 .. MAX_INTERVAL_SECS
          /\ s["ttl_ms"] \in MIN_TTL_MS .. MAX_TTL_MS
          /\ s["graph_lines"] \in 0 .. MAX_GRAPH_LINES
          /\ s["mem_graph_lines"] \in 0 .. MAX_GRAPH_LINES
          /\ s["load_graph_lines"] \in 0 .. MAX_GRAPH_LINES
          /\ s["averages_count"] \in 0 .. 3
      BY <1>2, <1>7 DEF Accepted, Bounded, Number
    <2>2. /\ Clamp(s["interval_secs"], 1, MAX_INTERVAL_SECS) = s["interval_secs"]
          /\ Clamp(s["ttl_ms"], MIN_TTL_MS, MAX_TTL_MS) = s["ttl_ms"]
          /\ Smaller(s["graph_lines"], MAX_GRAPH_LINES) = s["graph_lines"]
          /\ Smaller(s["mem_graph_lines"], MAX_GRAPH_LINES) = s["mem_graph_lines"]
          /\ Smaller(s["load_graph_lines"], MAX_GRAPH_LINES)
               = s["load_graph_lines"]
          /\ Smaller(s["averages_count"], 3) = s["averages_count"]
      BY <2>1, BoundsOfSettings DEF Clamp, Smaller
    <2>3. /\ Interval(given) = s["interval_secs"]
          /\ Ttl(given) = s["ttl_ms"]
      <3> HIDE DEF given
      <3> QED BY <2>2, <1>5, <1>7 DEF Interval, Ttl, Number
    <2>4. /\ GraphLines(given) = s["graph_lines"]
          /\ MemGraphLines(given) = s["mem_graph_lines"]
          /\ LoadGraphLines(given) = s["load_graph_lines"]
          /\ History(given) = s["history"]
          /\ AveragesCount(given) = s["averages_count"]
      <3> HIDE DEF given
      <3> QED BY <2>2, <1>4, <1>5, <1>7 DEF GraphLines, SetGraphLines,
              MemGraphLines, LoadGraphLines, History, AveragesCount, Number
    <2> QED BY <2>3, <2>4, ResolveKeys DEF Number
  <1>10. \A k \in Key : t[k] = s[k]
    BY <1>6, <1>8, <1>9 DEF Key
  <1>11. t = [k \in Key |-> t[k]]
    BY ResolveKeys
  <1> QED BY <1>1, <1>3, <1>10, <1>11

(* Two layers say the same of a key.                                       *)
LEMMA SameLine ==
  ASSUME NEW f, NEW g, NEW j, Line(f, j) = Line(g, j)
  PROVE  /\ j \in DOMAIN f <=> j \in DOMAIN g
         /\ j \in DOMAIN f => f[j] = g[j]
  BY DEF Line

(* Where two files agree on what a setting is made from, or a flag stands  *)
(* for it, the setting is the same.                                        *)
LEMMA ResolveLocal ==
  ASSUME NEW c \in CommandLines, NEW f, NEW g, IsLayer(f), IsLayer(g),
         NEW k \in Key,
         \A j \in Sources(k) \ DOMAIN Flags(c) : Line(f, j) = Line(g, j)
  PROVE  resolve(c, f)[k] = resolve(c, g)[k]
  <1> DEFINE F == Over(Flags(c), f)
             G == Over(Flags(c), g)
  <1>1. \A j \in Sources(k) : /\ j \in DOMAIN F <=> j \in DOMAIN G
                              /\ j \in DOMAIN F => F[j] = G[j]
    <2> TAKE j \in Sources(k)
    <2>1. IsLayer(Flags(c))
      BY FlagsAreLayer
    <2>2. /\ DOMAIN F = DOMAIN Flags(c) \cup DOMAIN f
          /\ \A i \in DOMAIN Flags(c) : F[i] = Flags(c)[i]
          /\ \A i \in DOMAIN f \ DOMAIN Flags(c) : F[i] = f[i]
      BY <2>1, OverIsLayer
    <2>3. /\ DOMAIN G = DOMAIN Flags(c) \cup DOMAIN g
          /\ \A i \in DOMAIN Flags(c) : G[i] = Flags(c)[i]
          /\ \A i \in DOMAIN g \ DOMAIN Flags(c) : G[i] = g[i]
      BY <2>1, OverIsLayer
    <2> HIDE DEF F, G
    <2>4. CASE j \in DOMAIN Flags(c)
      BY <2>2, <2>3, <2>4
    <2>5. CASE j \notin DOMAIN Flags(c)
      <3>1. Line(f, j) = Line(g, j)
        BY <2>5
      <3>2. /\ j \in DOMAIN f <=> j \in DOMAIN g
            /\ j \in DOMAIN f => f[j] = g[j]
        BY <3>1, SameLine
      <3> QED BY <2>2, <2>3, <2>5, <3>2
    <2> QED BY <2>4, <2>5
  <1>2. \A j \in Sources(k) :
          \A default : Given(F, j, default) = Given(G, j, default)
    BY <1>1 DEF Given
  <1>3. k \in Sources(k)
    BY DEF Sources
  <1>4. CASE k \in Plain \cup Threshold \cup {"graph_style"}
    <2>1. \A default : Given(F, k, default) = Given(G, k, default)
      BY <1>2, <1>3
    <2> QED BY <1>4, <2>1, ResolveKeys
  <1>5. CASE k \in {"interval_secs", "graph_lines", "averages_count"}
    <2>1. /\ k = "interval_secs" => Interval(F) = Interval(G)
          /\ k = "averages_count" => AveragesCount(F) = AveragesCount(G)
          /\ k = "graph_lines" => GraphLines(F) = GraphLines(G)
      BY <1>1, <1>2, <1>3
         DEF Interval, AveragesCount, GraphLines, SetGraphLines
    <2> QED BY <1>5, <2>1, ResolveKeys
  <1>6. CASE k = "ttl_ms"
    <2>1. "interval_secs" \in Sources(k)
      BY <1>6 DEF Sources, Followers
    <2>2. Interval(F) = Interval(G)
      BY <1>2, <2>1 DEF Interval
    <2>3. Ttl(F) = Ttl(G)
      BY <1>6, <1>2, <1>3, <2>2 DEF Ttl
    <2> QED BY <1>6, <2>3, ResolveKeys
  <1>7. CASE k \in {"mem_graph_lines", "load_graph_lines", "history"}
    <2>1. "graph_lines" \in Sources(k)
      BY <1>7 DEF Sources, Followers
    <2>2. \A default : SetGraphLines(F, default) = SetGraphLines(G, default)
      BY <1>1, <2>1 DEF SetGraphLines
    <2>3. /\ k = "mem_graph_lines" => MemGraphLines(F) = MemGraphLines(G)
          /\ k = "load_graph_lines" => LoadGraphLines(F) = LoadGraphLines(G)
          /\ k = "history" => History(F) = History(G)
      BY <1>2, <1>3, <2>2 DEF MemGraphLines, GraphLines, LoadGraphLines, History
    <2> QED BY <1>7, <2>3, ResolveKeys
  <1> QED BY <1>4, <1>5, <1>6, <1>7 DEF Key, Number

-----------------------------------------------------------------------------
(* The invariant.                                                          *)

(* What is in the file, and what load makes of it, is well formed.         *)
LEMMA ContentSetsLayer ==
  ASSUME NEW d, IsContent(d) PROVE IsLayer(d.sets)
  BY NoKeysIsLayer DEF IsContent, NoFile, Broken

(* The type invariant with what the properties need: the settings are the  *)
(* merge of the flags and the observed layer, a print agrees with its own  *)
(* flags, and a template is only written over a file with --force.         *)
LayersInv ==
  /\ SettingsTypeOK
  /\ Running => settings = resolve(cli, used)
  /\ \A s \in shown : \A k \in DOMAIN s.flags : s.settings[k] = s.flags[k]
  /\ standing => disk # NoFile
  /\ stage = "writing" /\ standing => cli.force

(* It holds at first.                                                      *)
LEMMA LayersInitially == Init => LayersInv
  <1> SUFFICES ASSUME Init PROVE LayersInv
    OBVIOUS
  <1>1. IsContent(disk)
    BY LayersAssumption DEF Init, IsContent, Text, NoFile, Broken
  <1>2. SettingsTypeOK
    BY <1>1, NoKeysIsLayer DEF Init, SettingsTypeOK, Running, IsContent
  <1> QED BY <1>2 DEF Init, LayersInv, Running

(* What a reading process loads is a layer.                                *)
LEMMA LoadGivesLayer ==
  ASSUME IsContent(disk) PROVE IsLayer(load_or_warn)
  BY NoKeysIsLayer, ContentSetsLayer DEF load_or_warn

(* Texts the program or the user writes are well formed, and there.        *)
LEMMA TextIsContent ==
  ASSUME NEW f, IsLayer(f)
  PROVE  IsContent(Text(f)) /\ Text(f) # NoFile /\ Text(f).sets = f
  BY DEF IsContent, Text, NoFile

(* Every step keeps it.                                                    *)
LEMMA LayersStep == LayersInv /\ [Next]_vars => LayersInv'
  <1> SUFFICES ASSUME LayersInv, [Next]_vars PROVE LayersInv'
    OBVIOUS
  <1> USE DEF LayersInv
  <1>1. CASE Start
    <2>1. SettingsTypeOK'
      BY <1>1 DEF Start, SettingsTypeOK, Running, runVars
    <2> QED BY <1>1, <2>1 DEF Start, Running, runVars
  <1>2. CASE CheckTarget
    <2>1. SettingsTypeOK'
      BY <1>2 DEF CheckTarget, SettingsTypeOK, Running, runVars, fileVars
    <2> QED BY <1>2, <2>1 DEF CheckTarget, Running, runVars, fileVars
  <1>3. CASE WriteTemplate
    <2>1. IsContent(disk') /\ (disk # NoFile => disk' # NoFile)
      BY <1>3, NoKeysIsLayer, TextIsContent DEF WriteTemplate, SettingsTypeOK
    <2>2. SettingsTypeOK'
      BY <1>3, <2>1 DEF WriteTemplate, SettingsTypeOK, Running, runVars
    <2> QED BY <1>3, <2>1, <2>2 DEF WriteTemplate, Running, runVars
  <1>4. CASE WriteRows
    <2>1. SettingsTypeOK'
      BY <1>4 DEF WriteRows, SettingsTypeOK, Running, runVars, fileVars
    <2> QED BY <1>4, <2>1 DEF WriteRows, Running, runVars, fileVars
  <1>5. CASE PrintConfig
    <2> DEFINE s == resolve(cli, load_or_warn)
               p == [flags |-> Flags(cli), settings |-> s]
    <2>1. cli \in CommandLines /\ IsLayer(load_or_warn)
      BY LoadGivesLayer DEF SettingsTypeOK
    <2>2. IsSettings(s) /\ \A k \in DOMAIN Flags(cli) : s[k] = Flags(cli)[k]
      BY <2>1, ResolveInRange, ResolveKeepsFlags
    <2>3. IsLayer(Flags(cli))
      BY <2>1, FlagsAreLayer
    <2>4. shown' = {p} \/ shown' = shown
      BY <1>5 DEF PrintConfig
    <2>5. p.flags = Flags(cli) /\ p.settings = s
      OBVIOUS
    <2> HIDE DEF s, p
    <2>6. \A q \in shown' : /\ IsLayer(q.flags) /\ IsSettings(q.settings)
                           /\ \A k \in DOMAIN q.flags : q.settings[k] = q.flags[k]
      BY <2>2, <2>3, <2>4, <2>5 DEF SettingsTypeOK
    <2>7. SettingsTypeOK'
      BY <1>5, <2>6
         DEF PrintConfig, Reads, SettingsTypeOK, Running, runVars, fileVars
    <2> QED BY <1>5, <2>6, <2>7 DEF PrintConfig, Running, runVars, fileVars
  <1>6. CASE Resident
    <2>1. cli \in CommandLines /\ IsLayer(load_or_warn)
      BY LoadGivesLayer DEF SettingsTypeOK
    <2>2. /\ used' = load_or_warn /\ settings' = resolve(cli, used')
          /\ UNCHANGED <<disk, standing, cli, shown>>
          /\ stage' \in {"daemon", "watch"}
      BY <1>6 DEF Resident, fileVars
    <2>3. IsSettings(settings')
      BY <2>1, <2>2, ResolveInRange
    <2>4. IsContent(seen')
      BY <1>6 DEF Resident, SettingsTypeOK, IsContent
    <2>5. SettingsTypeOK'
      BY <2>1, <2>2, <2>3, <2>4 DEF SettingsTypeOK, Running
    <2> QED BY <2>2, <2>5
  <1>7. CASE Once
    <2>1. SettingsTypeOK'
      BY <1>7 DEF Once, Reads, SettingsTypeOK, Running, runVars, fileVars
    <2> QED BY <1>7, <2>1 DEF Once, Running, runVars, fileVars
  <1>8. CASE Poll
    <2>1. UNCHANGED <<disk, standing, stage, cli, shown>> /\ seen' = disk
      BY <1>8 DEF Poll, fileVars
    <2>2. Running /\ Running' /\ cli \in CommandLines
      BY <1>8, <2>1 DEF Poll, Running, SettingsTypeOK
    <2>3. CASE disk = Broken
      <3>1. UNCHANGED <<used, settings>>
        BY <1>8, <2>3 DEF Poll
      <3>2. SettingsTypeOK'
        BY <2>1, <2>2, <3>1 DEF SettingsTypeOK, Running
      <3> QED BY <2>1, <2>2, <3>1, <3>2
    <2>4. CASE disk # Broken
      <3>1. used' = disk.sets /\ settings' = resolve(cli, disk.sets)
        BY <1>8, <2>4 DEF Poll
      <3>2. IsLayer(disk.sets)
        BY ContentSetsLayer DEF SettingsTypeOK
      <3>3. IsSettings(settings')
        BY <2>2, <3>1, <3>2, ResolveInRange
      <3>4. SettingsTypeOK'
        BY <2>1, <2>2, <3>1, <3>2, <3>3 DEF SettingsTypeOK, Running
      <3> QED BY <2>1, <2>2, <3>1, <3>4
    <2> QED BY <2>3, <2>4
  <1>9. CASE Quit
    <2>1. SettingsTypeOK'
      BY <1>9, NoKeysIsLayer
         DEF Quit, SettingsTypeOK, Running, fileVars, IsContent
    <2> QED BY <1>9, <2>1 DEF Quit, Running, fileVars
  <1>10. CASE Save
    <2>1. IsContent(disk') /\ disk' # NoFile
      BY <1>10, LayersAssumption, TextIsContent
         DEF Save, IsContent, Broken, NoFile
    <2>2. SettingsTypeOK'
      BY <1>10, <2>1 DEF Save, SettingsTypeOK, Running, runVars
    <2> QED BY <1>10, <2>1, <2>2 DEF Save, Running, runVars
  <1>11. CASE SavePrinted
    <2>1. PICK s \in shown : disk' = Text(to_file_config(s.settings))
      BY <1>11 DEF SavePrinted
    <2>2. IsSettings(s.settings)
      BY DEF SettingsTypeOK
    <2>3. IsLayer(to_file_config(s.settings))
      BY <2>2, AcceptedAreValues DEF IsLayer, IsSettings, to_file_config
    <2>4. IsContent(disk') /\ disk' # NoFile
      BY <2>1, <2>3, TextIsContent
    <2>5. SettingsTypeOK'
      BY <1>11, <2>4 DEF SavePrinted, SettingsTypeOK, Running, runVars
    <2> QED BY <1>11, <2>4, <2>5 DEF SavePrinted, Running, runVars
  <1>12. CASE Delete
    <2>1. SettingsTypeOK'
      BY <1>12 DEF Delete, SettingsTypeOK, Running, runVars, IsContent
    <2> QED BY <1>12, <2>1 DEF Delete, Running, runVars
  <1>13. CASE UNCHANGED vars
    <2>1. SettingsTypeOK'
      BY <1>13 DEF vars, fileVars, runVars, SettingsTypeOK, Running
    <2> QED BY <1>13, <2>1 DEF vars, fileVars, runVars, Running
  <1> QED BY <1>1, <1>2, <1>3, <1>4, <1>5, <1>6, <1>7, <1>8, <1>9, <1>10, <1>11,
             <1>12, <1>13 DEF Next

-----------------------------------------------------------------------------
(* The theorems.                                                           *)

(* The invariant holds in every run.                                       *)
LEMMA LayersAlways == Spec => []LayersInv
  BY LayersInitially, LayersStep, PTL DEF Spec

(***************************************************************************)
(* Whatever a file asks for, the settings a process works with are in the  *)
(* ranges herdr and a sidebar accept (config.rs:483-589).                  *)
(***************************************************************************)
THEOREM SettingsInRange == Spec => []SettingsTypeOK
  <1>1. LayersInv => SettingsTypeOK
    BY DEF LayersInv
  <1> QED BY <1>1, LayersAlways, PTL

(***************************************************************************)
(* No edit takes a flag away from a running process (config.rs:281-284).   *)
(***************************************************************************)
THEOREM FlagsCannotBeTakenAway == Spec => []FlagsStand
  <1>1. LayersInv => FlagsStand
    <2> SUFFICES ASSUME LayersInv, Running, NEW k \in DOMAIN Flags(cli)
                 PROVE  settings[k] = Flags(cli)[k]
      BY DEF FlagsStand
    <2> QED BY ResolveKeepsFlags DEF LayersInv, SettingsTypeOK
  <1> QED BY <1>1, LayersAlways, PTL

(***************************************************************************)
(* A ttl nobody chose outlives two intervals, at every interval a file or  *)
(* a flag may ask for (mod.rs:119-125).                                    *)
(***************************************************************************)
THEOREM DefaultTtlIsEnough == Spec => []RowsOutliveATick
  <1>1. LayersInv => RowsOutliveATick
    <2> SUFFICES ASSUME LayersInv, Running,
                        "ttl_ms" \notin DOMAIN Flags(cli) \cup DOMAIN used
                 PROVE  settings["ttl_ms"] > 2 * 1000 * settings["interval_secs"]
      BY DEF RowsOutliveATick
    <2>1. cli \in CommandLines /\ IsLayer(used) /\ settings = resolve(cli, used)
      BY DEF LayersInv, SettingsTypeOK
    <2> QED BY <2>1, ResolveTtl
  <1> QED BY <1>1, LayersAlways, PTL

(***************************************************************************)
(* What --print-config printed, put back as the file, gives the settings   *)
(* it showed, under the same flags or fewer (config.rs:448-480).           *)
(***************************************************************************)
THEOREM PrintRoundTrips == Spec => []PrintedStands
  <1>1. LayersInv => PrintedStands
    <2> SUFFICES ASSUME LayersInv, NEW s \in shown, Running,
                        used = to_file_config(s.settings),
                        \A k \in DOMAIN Flags(cli) :
                          k \in DOMAIN s.flags /\ Flags(cli)[k] = s.flags[k]
                 PROVE  settings = s.settings
      BY DEF PrintedStands
    <2>1. /\ cli \in CommandLines /\ settings = resolve(cli, used)
          /\ IsSettings(s.settings)
          /\ \A k \in DOMAIN s.flags : s.settings[k] = s.flags[k]
      BY DEF LayersInv, SettingsTypeOK
    <2>2. \A k \in DOMAIN Flags(cli) : s.settings[k] = Flags(cli)[k]
      BY <2>1
    <2> QED BY <2>1, <2>2, ResolveRoundTrip
  <1> QED BY <1>1, LayersAlways, PTL

(***************************************************************************)
(* A reload changes a setting only for an edit it depends on and no flag   *)
(* stands for (config.rs:494-513).                                         *)
(***************************************************************************)
THEOREM ReloadsAreLocal == Spec => EditsStayLocal
  <1>1. LayersInv /\ LayersInv' /\ [Next]_vars
          => [stage = "daemon" /\ stage' = "daemon" =>
                \A k \in Key : settings'[k] # settings[k] =>
                  \E j \in Sources(k) \ DOMAIN Flags(cli) :
                    Line(used', j) # Line(used, j)]_vars
    <2> SUFFICES ASSUME LayersInv, LayersInv', Next,
                        stage = "daemon", stage' = "daemon",
                        NEW k \in Key, settings'[k] # settings[k]
                 PROVE  \E j \in Sources(k) \ DOMAIN Flags(cli) :
                          Line(used', j) # Line(used, j)
      OBVIOUS
    <2>1. cli' = cli
      BY DEF Next, Start, CheckTarget, WriteTemplate, WriteRows, PrintConfig,
             Resident, Once, Poll, Quit, Save, SavePrinted, Delete
    <2>2. Running /\ Running'
      BY DEF Running
    <2>3. /\ cli \in CommandLines /\ IsLayer(used) /\ IsLayer(used')
          /\ settings = resolve(cli, used)
      BY <2>2 DEF LayersInv, SettingsTypeOK
    <2>4. settings' = resolve(cli, used')
      BY <2>1, <2>2 DEF LayersInv
    <2> QED BY <2>3, <2>4, ResolveLocal
  <1> QED BY <1>1, LayersAlways, PTL DEF Spec, EditsStayLocal

(***************************************************************************)
(* Without --force the template never replaces a file that has been there  *)
(* all along (config.rs:622-634).                                          *)
(***************************************************************************)
THEOREM TemplateNeedsForce == Spec => TemplateSpares
  <1>1. LayersInv /\ [Next]_vars
          => [stage = "writing" /\ stage' = "off" /\ disk' # disk /\ standing
                => cli.force]_vars
    BY DEF LayersInv
  <1> QED BY <1>1, LayersAlways, PTL DEF Spec, TemplateSpares
=============================================================================
