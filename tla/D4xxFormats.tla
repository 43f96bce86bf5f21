----------------------------- MODULE D4xxFormats -----------------------------
(***************************************************************************)
(* Formats, sizes and frame rates: what d4xx.c offers for each device type *)
(* and sensor, how a request is fitted to it (set_fmt, s_frame_interval),  *)
(* and what the start of a stream programs into the camera.                *)
(*                                                                         *)
(* An instance has four sensors, of which it streams one, its own.  Each   *)
(* sensor has a sub-device node; the mux in front of them has another, and *)
(* a video node.  set_fmt holds state->lock; frame intervals and the start *)
(* of a stream read and write the same configuration without it.  The      *)
(* search for the nearest size works directly on that configuration.       *)
(***************************************************************************)
EXTENDS Integers, Sequences

CONSTANTS
  Instance,    \* kinds of instances: device type, own sensor, firmware >= 5.16
  Overlapping, \* those of them on which calls overlap
  Node,        \* Node[m]: nodes through which clients use an instance of kind m
  Request,     \* Request[m]: formats the clients ask for or try
  Interval     \* Interval[m]: frame intervals, numerator and denominator

Sensor == {"depth", "ir", "rgb", "imu"}
Device == {"D40X", "D41X", "D43X", "D45X", "D46X", "unknown"}
Mux == "mux"

IntMax == 2147483647

\* Widths and heights are u32 and their product is compared as an int: larger
\* areas wrap, which the distances of the search leave out.
ASSUME FormatsAssumption ==
  /\ Instance \subseteq [dev : Device, own : Sensor, fw516 : BOOLEAN]
  /\ Overlapping \subseteq Instance
  /\ \A m \in Instance : Node[m] \subseteq Sensor \cup {Mux}
  /\ \A m \in Instance :
       /\ Request[m] \subseteq [try : BOOLEAN, code : STRING, width : Nat, height : Nat]
       /\ \A q \in Request[m] : q.width * q.height <= IntMax
  /\ \A m \in Instance : Interval[m] \subseteq (Nat \ {0}) \X Nat

-----------------------------------------------------------------------------
(* The tables.                                                             *)

Res(w, h, rates) == [width |-> w, height |-> h, rates |-> rates]

ds5_framerates == <<5, 30>>
ds5_depth_framerate_to_30 == <<5, 15, 30>>
ds5_framerate_to_30 == <<5, 10, 15, 30>>
ds5_framerate_to_60 == <<5, 15, 30, 60>>
ds5_framerate_to_90 == <<5, 15, 30, 60, 90>>
ds5_41x_framerate_to_30 == <<6, 15, 30>>
ds5_41x_framerate_to_60 == <<6, 15, 30, 60>>
ds5_41x_framerate_to_60_no_15 == <<6, 30, 60>>
ds5_41x_framerate_to_90 == <<6, 15, 30, 60, 90>>
ds5_framerate_15_25 == <<15, 25>>
ds5_framerate_15_30 == <<15, 30>>
ds5_imu_framerates == <<50, 100, 200, 400>>

\* A run of sizes that are offered with the same rates.
Each(sizes, rates) ==
  [k \in 1..Len(sizes) |-> Res(sizes[k][1], sizes[k][2], rates)]

VGA == <<640, 480>>
Small == <<<<640, 360>>, <<480, 270>>, <<424, 240>>>>

D401_COMMON_RES ==
  <<Res(1280, 720, ds5_framerate_to_30)>> \o
  Each(<<<<848, 480>>, VGA>> \o Small, ds5_framerate_to_60)

d40x_depth_sizes == D401_COMMON_RES \o <<Res(256, 144, <<90>>)>>
d40x_calibration_sizes == <<Res(1288, 808, ds5_framerate_15_25)>>

\* The depth sizes of D41X and D43X differ in their rates only.
DepthSizes(to_30, to_90) ==
  <<Res(1280, 720, to_30), Res(848, 480, to_90), Res(848, 100, <<100>>)>> \o
  Each(<<VGA>> \o Small, to_90) \o <<Res(256, 144, <<90>>)>>

d41x_depth_sizes == DepthSizes(ds5_41x_framerate_to_30, ds5_41x_framerate_to_90)
d43x_depth_sizes == DepthSizes(ds5_depth_framerate_to_30, ds5_framerate_to_90)
d46x_depth_sizes == Each(<<<<1280, 960>>, VGA>>, ds5_framerates)

y8_sizes ==
  <<Res(1280, 720, ds5_depth_framerate_to_30)>> \o
  Each(<<<<848, 480>>, VGA>> \o Small, ds5_framerate_to_90)

y8_41x_sizes ==
  <<Res(1920, 1080, ds5_framerate_15_25),
    Res(1280, 720, ds5_41x_framerate_to_30),
    Res(960, 540, ds5_framerate_15_25),
    Res(848, 480, ds5_41x_framerate_to_90),
    Res(848, 100, <<100>>)>> \o
  Each(<<VGA>> \o Small, ds5_41x_framerate_to_90)

ds5_41x_rgb_sizes ==
  Each(<<<<1920, 1080>>, <<1280, 720>>>>, ds5_41x_framerate_to_30) \o
  Each(<<<<960, 540>>, <<848, 480>>, VGA, <<640, 360>>, <<424, 240>>>>,
       ds5_41x_framerate_to_60) \o
  Each(<<<<320, 240>>, <<320, 180>>>>, ds5_41x_framerate_to_60_no_15)

ds5_rlt_rgb_sizes ==
  Each(<<<<1280, 800>>, <<1280, 720>>>>, ds5_framerate_to_30) \o
  Each(<<<<848, 480>>, VGA>>, ds5_framerate_to_60) \o
  Each(Small, ds5_framerate_to_90)

ds5_onsemi_rgb_sizes ==
  <<Res(640, 480, ds5_framerate_to_90), Res(960, 720, ds5_framerate_to_60)>> \o
  Each(<<<<1280, 720>>, <<1920, 1080>>, <<2048, 1536>>>>, ds5_framerates)

d41x_calibration_sizes == <<Res(1920, 1080, ds5_framerate_15_25)>>
d43x_calibration_sizes == <<Res(1280, 800, ds5_framerate_15_30)>>
d45x_calibration_sizes == <<Res(1280, 800, ds5_framerate_15_25)>>

ds5_size_imu == <<Res(32, 1, ds5_imu_framerates)>>
ds5_size_imu_extended == <<Res(38, 1, ds5_imu_framerates)>>

Fmt(code, sizes) == [code |-> code, sizes |-> sizes]

\* Of the three formats of each ds5_depth_formats_* only the first, Z16, is
\* offered (n_formats = 1).
DepthFormats(dev) ==
  <<Fmt("UYVY8", CASE dev = "D40X" -> d40x_depth_sizes
                   [] dev = "D41X" -> d41x_depth_sizes
                   [] dev = "D46X" -> d46x_depth_sizes
                   [] OTHER -> d43x_depth_sizes)>>

YFormats(sizes, calibration) ==
  <<Fmt("Y8", sizes), Fmt("VYUY8", sizes), Fmt("RGB888", calibration)>>

IrFormats(dev) ==
  CASE dev = "D40X" -> YFormats(D401_COMMON_RES, d40x_calibration_sizes)
    [] dev = "D41X" -> YFormats(y8_41x_sizes, d41x_calibration_sizes)
    [] dev = "D45X" -> YFormats(y8_sizes, d45x_calibration_sizes)
    [] OTHER -> YFormats(y8_sizes, d43x_calibration_sizes)

RgbFormats(dev) ==
  <<Fmt("YUYV8", CASE dev = "D40X" -> D401_COMMON_RES
                   [] dev = "D41X" -> ds5_41x_rgb_sizes
                   [] dev = "D45X" -> ds5_rlt_rgb_sizes
                   [] OTHER -> ds5_onsemi_rgb_sizes)>>

ImuFormats(fw516) ==
  <<Fmt("Y8", IF fw516 THEN ds5_size_imu_extended ELSE ds5_size_imu)>>

\* ds5_fixed_configuration
FormatsOf(m, s) == CASE s = "depth" -> DepthFormats(m.dev)
                     [] s = "ir" -> IrFormats(m.dev)
                     [] s = "rgb" -> RgbFormats(m.dev)
                     [] s = "imu" -> ImuFormats(m.fw516)

-----------------------------------------------------------------------------
VARIABLES
  inst,        \* the kind of this instance
  fmt,         \* fmt[s]: sensor->config.format, an index into its formats
  res,         \* res[s]: sensor->config.resolution, a size of some format
  rate,        \* rate[s]: sensor->config.framerate
  reported,    \* reported[s]: sensor->format, what get_fmt answers
  lastSet,     \* mux.last_set
  asked,       \* the set_fmt that holds state->lock, if any
  timing,      \* the s_frame_interval in progress, if any
  start,       \* what a start in progress has read so far
  tried,       \* history: sensors last set with V4L2_SUBDEV_FORMAT_TRY
  stale,       \* history: sensors whose format was set after their rate
  stray        \* history: the last set_fmt was for another sensor's node

history == <<tried, stale, stray>>
vars == <<inst, fmt, res, rate, reported, lastSet, asked, timing, start, history>>

Formats(s) == FormatsOf(inst, s)
Size(s, r) == Formats(s)[r[1]].sizes[r[2]]
Sizes(s) ==
  UNION {{<<f, k>> : k \in 1..Len(Formats(s)[f].sizes)} : f \in 1..Len(Formats(s))}
Elements(seq) == {seq[k] : k \in 1..Len(seq)}
First(S) == CHOOSE k \in S : \A j \in S : k <= j
Report(code, r) == [code |-> code, width |-> r.width, height |-> r.height]

TypeOK ==
  /\ inst \in Instance
  /\ \A s \in Sensor :
       /\ fmt[s] \in 1..Len(Formats(s))
       /\ res[s] \in Sizes(s)
       /\ \E r \in Sizes(s) : rate[s] \in Elements(Size(s, r).rates)
       /\ \E r \in Sizes(s) : reported[s] = Report(Formats(s)[r[1]].code, Size(s, r))
  /\ lastSet \in Sensor
  /\ tried \subseteq Sensor /\ stale \subseteq Sensor /\ stray \in BOOLEAN

\* 30 frames per second if offered, else the first rate.
DefaultRate(rates) == IF 30 \in Elements(rates) THEN 30 ELSE rates[1]

Init ==
  /\ inst \in Instance
  /\ fmt = [s \in Sensor |-> 1]
  /\ res = [s \in Sensor |-> <<1, 1>>]
  /\ rate = [s \in Sensor |-> DefaultRate(Size(s, <<1, 1>>).rates)]
  /\ reported = [s \in Sensor |-> Report(Formats(s)[1].code, Size(s, <<1, 1>>))]
  /\ lastSet = inst.own
  /\ asked = {} /\ timing = {} /\ start = {}
  /\ tried = {} /\ stale = {} /\ stray = FALSE

Free == inst \in Overlapping \/ (asked = {} /\ timing = {} /\ start = {})

SettingFormat(s) == \E a \in asked : a.sensor = s

-----------------------------------------------------------------------------
(* What is offered: the enumerations of codes, sizes and intervals.        *)

WithCode(s, code) == {f \in 1..Len(Formats(s)) : Formats(s)[f].code = code}

EnumCodes(s) == {f.code : f \in Elements(Formats(s))}

\* The format with this code, or the first one.
Find(s, code) == IF WithCode(s, code) = {} THEN 1 ELSE First(WithCode(s, code))

EnumSizes(s, code) == Elements(Formats(s)[Find(s, code)].sizes)

EnumRates(s, code, w, h) ==
  LET sizes == Formats(s)[Find(s, code)].sizes
      same == {k \in 1..Len(sizes) : sizes[k].width = w /\ sizes[k].height = h}
  IN IF code \in EnumCodes(s) /\ same # {} THEN Elements(sizes[First(same)].rates)
                                          ELSE {}

-----------------------------------------------------------------------------
(* set_fmt: ds5_sensor_find_format writes to config.resolution whenever it *)
(* meets a nearer size; the rest follows when it is done.                  *)

\* The mux passes set_fmt on to the instance's own sensor.
Target(node) == IF node = Mux THEN inst.own ELSE node

SetFmtBegin(node, q) ==
  /\ Free /\ asked = {}
  /\ LET s == Target(node) IN
     /\ asked' = {[sensor |-> s, ask |-> q, best |-> 0]}
     /\ stale' = stale \cup {s}
     /\ timing' = {[t EXCEPT !.clean = @ /\ t.sensor # s] : t \in timing}
     /\ start' = {[p EXCEPT !.whole = @ /\ s # inst.own] : p \in start}
  /\ UNCHANGED <<inst, fmt, res, rate, reported, lastSet, tried, stray>>

Abs(n) == IF n < 0 THEN -n ELSE n

\* Mutant: the widths are compared, not the areas.
DistanceWidth(q, r) == Abs(q.width - r.width)

Distance(q, r) == Abs(q.width * q.height - r.width * r.height)

\* The sizes still ahead of the search that are nearer than its best.
Nearer(a) ==
  LET sizes == Formats(a.sensor)[Find(a.sensor, a.ask.code)].sizes IN
  {k \in a.best + 1..Len(sizes) :
     a.best = 0 \/ Distance(a.ask, sizes[k]) < Distance(a.ask, sizes[a.best])}

Improve ==
  \E a \in asked :
    /\ Nearer(a) # {}
    /\ LET k == First(Nearer(a)) IN
       /\ res' = [res EXCEPT ![a.sensor] = <<Find(a.sensor, a.ask.code), k>>]
       /\ asked' = {[a EXCEPT !.best = k]}
    /\ UNCHANGED <<inst, fmt, rate, reported, lastSet, timing, start, history>>

\* Mutant: mux.last_set is not updated.
SetFmtEndForgets ==
  \E a \in asked :
    LET s == a.sensor
        f == Find(s, a.ask.code)
    IN
    /\ Nearer(a) = {}
    /\ fmt' = [fmt EXCEPT ![s] = f]
    /\ IF a.ask.try
         THEN tried' = tried \cup {s} /\ UNCHANGED reported
         ELSE /\ tried' = tried \ {s}
              /\ reported' = [reported EXCEPT ![s] =
                   Report(Formats(s)[f].code, Formats(s)[f].sizes[a.best])]
    /\ stray' = (s # inst.own)
    /\ lastSet' = IF s = inst.own THEN lastSet ELSE s
    /\ asked' = {}
    /\ UNCHANGED <<inst, res, rate, timing, start, stale>>

\* Only the answer to an active format is kept for get_fmt, but the
\* configuration follows one that was tried, too.
SetFmtEnd ==
  \E a \in asked :
    LET s == a.sensor
        f == Find(s, a.ask.code)
    IN
    /\ Nearer(a) = {}
    /\ fmt' = [fmt EXCEPT ![s] = f]
    /\ IF a.ask.try
         THEN tried' = tried \cup {s} /\ UNCHANGED reported
         ELSE /\ tried' = tried \ {s}
              /\ reported' = [reported EXCEPT ![s] =
                   Report(Formats(s)[f].code, Formats(s)[f].sizes[a.best])]
    /\ lastSet' = s
    /\ stray' = (s # inst.own)
    /\ asked' = {}
    /\ UNCHANGED <<inst, res, rate, timing, start, stale>>

-----------------------------------------------------------------------------
(* s_frame_interval: look at the configured size, then set the rate.       *)

\* The mux works on the sensor that set_fmt was last called for.
IntervalBegin(node, v) ==
  /\ Free /\ timing = {}
  /\ LET s == IF node = Mux THEN lastSet ELSE node IN
     timing' = {[sensor |-> s, node |-> node, res |-> res[s], target |-> v[2] \div v[1],
                 clean |-> ~SettingFormat(s) /\ (node = Mux => ~stray)]}
  /\ UNCHANGED <<inst, fmt, res, rate, reported, lastSet, asked, start, history>>

\* Mutant: a rate above all is taken as it is.
ProbeRateUnbounded(rates, target) ==
  LET enough == {k \in 1..Len(rates) : target <= rates[k]} IN
  IF enough = {} THEN target ELSE rates[First(enough)]

\* Mutant: the comparison leaves out equality.
ProbeRateAbove(rates, target) ==
  LET enough == {k \in 1..Len(rates) : target < rates[k]} IN
  rates[IF enough = {} THEN Len(rates) ELSE First(enough)]

\* The first rate that is enough, or the last one.
ProbeRate(rates, target) ==
  LET enough == {k \in 1..Len(rates) : target <= rates[k]} IN
  rates[IF enough = {} THEN Len(rates) ELSE First(enough)]

U16 == 65536

IntervalEnd ==
  \E t \in timing :
    /\ rate' = [rate EXCEPT ![t.sensor] =
                  ProbeRate(Size(t.sensor, t.res).rates, t.target % U16)]
    /\ stale' = IF t.clean THEN stale \ {Target(t.node)} ELSE stale \cup {t.sensor}
    /\ timing' = {}
    /\ UNCHANGED <<inst, fmt, res, reported, lastSet, asked, start, tried, stray>>

-----------------------------------------------------------------------------
(* The start of a stream (ds5_configure) reads the configuration of the     *)
(* instance's own sensor, one register's value after the other.            *)

StartFormat ==
  /\ Free /\ start = {}
  /\ start' = {[next |-> "rate", code |-> Formats(inst.own)[fmt[inst.own]].code,
                rate |-> 0, width |-> 0,
                whole |-> ~SettingFormat(inst.own), fresh |-> FALSE]}
  /\ UNCHANGED <<inst, fmt, res, rate, reported, lastSet, asked, timing, history>>

StartRate ==
  \E p \in start :
    /\ p.next = "rate"
    /\ start' = {[p EXCEPT !.next = "width", !.rate = rate[inst.own],
                           !.fresh = inst.own \notin stale]}
    /\ UNCHANGED <<inst, fmt, res, rate, reported, lastSet, asked, timing, history>>

\* Mutant: the width is taken from the sensor set_fmt was last called for.
StartWidthLast ==
  \E p \in start :
    /\ p.next = "width"
    /\ start' = {[p EXCEPT !.next = "height", !.width = Size(lastSet, res[lastSet]).width]}
    /\ UNCHANGED <<inst, fmt, res, rate, reported, lastSet, asked, timing, history>>

StartWidth ==
  \E p \in start :
    /\ p.next = "width"
    /\ start' = {[p EXCEPT !.next = "height",
                           !.width = Size(inst.own, res[inst.own]).width]}
    /\ UNCHANGED <<inst, fmt, res, rate, reported, lastSet, asked, timing, history>>

\* The height is the last; the command to start follows.
StartHeight ==
  /\ \E p \in start : p.next = "height"
  /\ start' = {}
  /\ UNCHANGED <<inst, fmt, res, rate, reported, lastSet, asked, timing, history>>

-----------------------------------------------------------------------------
Next ==
  \/ \E node \in Node[inst] :
       \/ \E q \in Request[inst] : SetFmtBegin(node, q)
       \/ \E v \in Interval[inst] : IntervalBegin(node, v)
  \/ Improve \/ SetFmtEnd
  \/ IntervalEnd
  \/ StartFormat \/ StartRate \/ StartWidth \/ StartHeight

Spec == Init /\ [][Next]_vars

-----------------------------------------------------------------------------
(* Properties                                                              *)

\* A format a client found by enumeration is granted to the letter.  With a code
\* that is offered and a size that is not, no size offered with the code is
\* nearer to the one asked for, although the search stops at the first of
\* several and two sizes may be as near.
FormatHonoured ==
  [][\A a \in asked : asked' = {} /\ a.ask.code \in EnumCodes(a.sensor) =>
       LET s == a.sensor
           size == Size(s, res'[s])
       IN /\ Formats(s)[fmt'[s]].code = a.ask.code
          /\ \A z \in EnumSizes(s, a.ask.code) :
               /\ Distance(a.ask, size) <= Distance(a.ask, z)
               /\ z.width = a.ask.width /\ z.height = a.ask.height => size = z]_vars

\* The rate granted is the least offered one that is at least the rate asked
\* for, or the highest of all; rates beyond 16 bits wrap.
RateHonoured ==
  [][\A t \in timing : timing' = {} /\ t.target < U16 =>
       LET offered == Elements(Size(t.sensor, t.res).rates)
           granted == rate'[t.sensor]
       IN /\ granted \in offered
          /\ \A r \in offered : r >= t.target => granted >= t.target /\ granted <= r
          /\ granted < t.target => \A r \in offered : r <= granted]_vars

\* What a start will have programmed when it reads the height.
Height == Size(inst.own, res[inst.own]).height

\* A start programs the format and size that get_fmt reports, unless a set_fmt
\* came in between or the last one was only to try.
StartMatchesReport ==
  \A p \in start : p.next = "height" /\ p.whole /\ inst.own \notin tried =>
    reported[inst.own] = [code |-> p.code, width |-> p.width, height |-> Height]

\* A start programs a rate the enumeration offers with that format and size, if
\* a client set the format, then the interval, and nobody called in between;
\* it may use the mux for both, as long as no other sensor's node was used.
StartRateOffered ==
  \A p \in start : p.next = "height" /\ p.whole /\ p.fresh =>
    p.rate \in EnumRates(inst.own, p.code, p.width, Height)
=============================================================================
