------------------------- MODULE D4xxFormats_proofs -------------------------
(***************************************************************************)
(* Proofs about D4xxFormats, in two parts.                                 *)
(*                                                                         *)
(* The tables: for every device type and sensor there are formats, every   *)
(* format has sizes, every size has rates, the rates ascend and no two     *)
(* sizes of a format have the same area.  The search for the nearest size  *)
(* and the choice of a rate are right because of these facts.              *)
(*                                                                         *)
(* The calls: set_fmt, s_frame_interval and the start of a stream overlap  *)
(* in any way, on any set of instances and with any requests.              *)
(***************************************************************************)
EXTENDS D4xxFormats, SequenceTheorems, WellFoundedInduction, TLAPS

-----------------------------------------------------------------------------
(* What the tables are made of.                                            *)

Rates ==
  {r \in Seq(Nat) : Len(r) > 0 /\ \A i, j \in 1..Len(r) : i <= j => r[i] <= r[j]}
Resolution == [width : Nat, height : Nat, rates : Rates]
Area(z) == z.width * z.height

Table ==
  {z \in Seq(Resolution) :
     Len(z) > 0 /\ \A i, j \in 1..Len(z) : Area(z[i]) = Area(z[j]) => i = j}

Code == {"UYVY8", "Y8", "VYUY8", "RGB888", "YUYV8"}
Format == [code : Code, sizes : Table]

\* A list of widths and heights from which Each makes a table.
SizeRun(s) ==
  /\ s \in Seq(Nat \X Nat)
  /\ Len(s) > 0
  /\ \A i, j \in 1..Len(s) : s[i][1] * s[i][2] = s[j][1] * s[j][2] => i = j

Offers(z, n) == \E k \in 1..Len(z) : Area(z[k]) = n

\* Every list of rates ascends, and none is empty.
LEMMA RatesTyped ==
  /\ ds5_framerates \in Rates
  /\ ds5_depth_framerate_to_30 \in Rates
  /\ ds5_framerate_to_30 \in Rates
  /\ ds5_framerate_to_60 \in Rates
  /\ ds5_framerate_to_90 \in Rates
  /\ ds5_41x_framerate_to_30 \in Rates
  /\ ds5_41x_framerate_to_60 \in Rates
  /\ ds5_41x_framerate_to_60_no_15 \in Rates
  /\ ds5_41x_framerate_to_90 \in Rates
  /\ ds5_framerate_15_25 \in Rates
  /\ ds5_framerate_15_30 \in Rates
  /\ ds5_imu_framerates \in Rates
  /\ <<90>> \in Rates
  /\ <<100>> \in Rates
BY DEF Rates, ds5_framerates, ds5_depth_framerate_to_30, ds5_framerate_to_30,
  ds5_framerate_to_60, ds5_framerate_to_90, ds5_41x_framerate_to_30,
  ds5_41x_framerate_to_60, ds5_41x_framerate_to_60_no_15, ds5_41x_framerate_to_90,
  ds5_framerate_15_25, ds5_framerate_15_30, ds5_imu_framerates

LEMMA OneSize ==
  ASSUME NEW w \in Nat, NEW h \in Nat, NEW r \in Rates
  PROVE  /\ <<Res(w, h, r)>> \in Table
         /\ \A n : Offers(<<Res(w, h, r)>>, n) => n = w * h
BY DEF Table, Offers, Area, Res, Resolution

LEMMA SeqOf ==
  ASSUME NEW S, NEW n \in Nat, NEW f \in [1..n -> S]
  PROVE  f \in Seq(S)
<1>1. f \in UNION {[1..k -> S] : k \in Nat}
  OBVIOUS
<1> QED BY <1>1, SeqDef

\* A run of sizes makes a table that offers the areas of the run.
LEMMA EachSize ==
  ASSUME NEW s, SizeRun(s), NEW r \in Rates
  PROVE  /\ Each(s, r) \in Table
         /\ \A n : Offers(Each(s, r), n) => \E k \in 1..Len(s) : s[k][1] * s[k][2] = n
<1>1. \A k \in 1..Len(s) : s[k][1] \in Nat /\ s[k][2] \in Nat
  BY DEF SizeRun
<1>2. Len(s) \in Nat /\ Len(s) > 0
  BY DEF SizeRun
<1>3. Each(s, r) \in Seq(Resolution) /\ Len(Each(s, r)) = Len(s)
  <2>1. Each(s, r) \in [1..Len(s) -> Resolution]
    BY <1>1, <1>2 DEF Each, Res, Resolution
  <2>2. Each(s, r) \in Seq(Resolution)
    BY <1>2, <2>1, SeqOf
  <2>3. DOMAIN Each(s, r) = 1..Len(s)
    BY DEF Each
  <2> HIDE DEF Each
  <2> QED BY <1>2, <2>2, <2>3, LenProperties
<1>4. \A k \in 1..Len(s) : Area(Each(s, r)[k]) = s[k][1] * s[k][2]
  BY DEF Each, Res, Area
<1>5. Each(s, r) \in Table
  BY <1>2, <1>3, <1>4 DEF Table, SizeRun
<1>6. ASSUME NEW n, Offers(Each(s, r), n)
      PROVE  \E k \in 1..Len(s) : s[k][1] * s[k][2] = n
  BY <1>3, <1>4, <1>6 DEF Offers
<1> QED BY <1>5, <1>6

\* Two tables that share no area make one that offers what either does.
LEMMA Joined ==
  ASSUME NEW a \in Table, NEW b \in Table, \A n : ~(Offers(a, n) /\ Offers(b, n))
  PROVE  /\ a \o b \in Table
         /\ \A n : Offers(a \o b, n) => Offers(a, n) \/ Offers(b, n)
<1> DEFINE c == a \o b
<1>1. a \in Seq(Resolution) /\ b \in Seq(Resolution)
  BY DEF Table
<1>2. Len(a) \in Nat /\ Len(b) \in Nat /\ Len(a) > 0
  BY <1>1 DEF Table
<1>3. /\ c \in Seq(Resolution)
      /\ Len(c) = Len(a) + Len(b)
      /\ \A i \in 1..Len(a) + Len(b) :
           c[i] = IF i <= Len(a) THEN a[i] ELSE b[i - Len(a)]
  BY <1>1
<1> HIDE DEF c
<1>4. ASSUME NEW i \in 1..Len(c)
      PROVE  \/ i \in 1..Len(a) /\ c[i] = a[i]
             \/ i - Len(a) \in 1..Len(b) /\ c[i] = b[i - Len(a)]
  <2>1. CASE i <= Len(a)
    BY <1>2, <1>3, <2>1
  <2>2. CASE ~(i <= Len(a))
    BY <1>2, <1>3, <2>2
  <2> QED BY <2>1, <2>2
<1>5. ASSUME NEW n, Offers(c, n)
      PROVE  Offers(a, n) \/ Offers(b, n)
  BY <1>4, <1>5 DEF Offers
<1>6. ASSUME NEW i \in 1..Len(c), NEW j \in 1..Len(c), Area(c[i]) = Area(c[j])
      PROVE  i = j
  <2>1. CASE i \in 1..Len(a) /\ c[i] = a[i] /\ j \in 1..Len(a) /\ c[j] = a[j]
    BY <1>6, <2>1 DEF Table
  <2>2. CASE /\ i - Len(a) \in 1..Len(b) /\ c[i] = b[i - Len(a)]
             /\ j - Len(a) \in 1..Len(b) /\ c[j] = b[j - Len(a)]
    <3>1. i - Len(a) = j - Len(a)
      BY <1>6, <2>2 DEF Table
    <3> QED BY <1>2, <1>3, <3>1
  <2>3. CASE /\ i \in 1..Len(a) /\ c[i] = a[i]
             /\ j - Len(a) \in 1..Len(b) /\ c[j] = b[j - Len(a)]
    BY <1>6, <2>3 DEF Offers
  <2>4. CASE /\ j \in 1..Len(a) /\ c[j] = a[j]
             /\ i - Len(a) \in 1..Len(b) /\ c[i] = b[i - Len(a)]
    BY <1>6, <2>4 DEF Offers
  <2> QED BY <1>4, <2>1, <2>2, <2>3, <2>4
<1>7. c \in Table
  BY <1>2, <1>3, <1>6 DEF Table
<1> QED BY <1>5, <1>7 DEF c

\* The runs of sizes the tables are made of: the small sizes,
LEMMA RunSmall ==
  ASSUME NEW r \in Rates
  PROVE  /\ Each(Small, r) \in Table
         /\ \A n : Offers(Each(Small, r), n) =>
                 \/ n = 640 * 360
                 \/ n = 480 * 270
                 \/ n = 424 * 240
<1> DEFINE s == Small
           area(k) == s[k][1] * s[k][2]
<1>1. s \in Seq(Nat \X Nat) /\ Len(s) = 3
  BY DEF Small
<1>2. /\ area(1) = 640 * 360
      /\ area(2) = 480 * 270
      /\ area(3) = 424 * 240
  BY DEF Small
<1> HIDE DEF s, area
<1>3. \A k \in 1..Len(s) : k = 1 \/ k = 2 \/ k = 3
  BY <1>1
<1>4. \A i, j \in 1..Len(s) : area(i) = area(j) => i = j
  BY <1>2, <1>3
<1>5. SizeRun(s)
  BY <1>1, <1>4 DEF SizeRun, area
<1>6. /\ Each(s, r) \in Table
      /\ \A n : Offers(Each(s, r), n) => \E k \in 1..Len(s) : area(k) = n
  BY <1>5, EachSize DEF area
<1> QED BY <1>2, <1>3, <1>6 DEF s

\* VGA and the small sizes,
LEMMA RunVGA ==
  ASSUME NEW r \in Rates
  PROVE  /\ Each(<<VGA>> \o Small, r) \in Table
         /\ \A n : Offers(Each(<<VGA>> \o Small, r), n) =>
                 \/ n = 640 * 480
                 \/ n = 640 * 360
                 \/ n = 480 * 270
                 \/ n = 424 * 240
<1> DEFINE s == <<VGA>> \o Small
           area(k) == s[k][1] * s[k][2]
<1>1. s \in Seq(Nat \X Nat) /\ Len(s) = 4
  BY DEF VGA, Small
<1>2. /\ area(1) = 640 * 480
      /\ area(2) = 640 * 360
      /\ area(3) = 480 * 270
      /\ area(4) = 424 * 240
  BY DEF VGA, Small
<1> HIDE DEF s, area
<1>3. \A k \in 1..Len(s) : k = 1 \/ k = 2 \/ k = 3 \/ k = 4
  BY <1>1
<1>4. \A i, j \in 1..Len(s) : area(i) = area(j) => i = j
  BY <1>2, <1>3
<1>5. SizeRun(s)
  BY <1>1, <1>4 DEF SizeRun, area
<1>6. /\ Each(s, r) \in Table
      /\ \A n : Offers(Each(s, r), n) => \E k \in 1..Len(s) : area(k) = n
  BY <1>5, EachSize DEF area
<1> QED BY <1>2, <1>3, <1>6 DEF s

\* 848x480, VGA and the small sizes,
LEMMA RunWide ==
  ASSUME NEW r \in Rates
  PROVE  /\ Each(<<<<848, 480>>, VGA>> \o Small, r) \in Table
         /\ \A n : Offers(Each(<<<<848, 480>>, VGA>> \o Small, r), n) =>
                 \/ n = 848 * 480
                 \/ n = 640 * 480
                 \/ n = 640 * 360
                 \/ n = 480 * 270
                 \/ n = 424 * 240
<1> DEFINE s == <<<<848, 480>>, VGA>> \o Small
           area(k) == s[k][1] * s[k][2]
<1>1. s \in Seq(Nat \X Nat) /\ Len(s) = 5
  BY DEF VGA, Small
<1>2. /\ area(1) = 848 * 480
      /\ area(2) = 640 * 480
      /\ area(3) = 640 * 360
      /\ area(4) = 480 * 270
      /\ area(5) = 424 * 240
  BY DEF VGA, Small
<1> HIDE DEF s, area
<1>3. \A k \in 1..Len(s) : k = 1 \/ k = 2 \/ k = 3 \/ k = 4 \/ k = 5
  BY <1>1
<1>4. \A i, j \in 1..Len(s) : area(i) = area(j) => i = j
  BY <1>2, <1>3
<1>5. SizeRun(s)
  BY <1>1, <1>4 DEF SizeRun, area
<1>6. /\ Each(s, r) \in Table
      /\ \A n : Offers(Each(s, r), n) => \E k \in 1..Len(s) : area(k) = n
  BY <1>5, EachSize DEF area
<1> QED BY <1>2, <1>3, <1>6 DEF s

\* the middle sizes of the RGB sensor of a D41X,
LEMMA RunRgb ==
  ASSUME NEW r \in Rates
  PROVE  /\ Each(<<<<960, 540>>, <<848, 480>>, VGA, <<640, 360>>, <<424, 240>>>>, r) \in Table
         /\ \A n :
              Offers(Each(<<<<960, 540>>, <<848, 480>>, VGA, <<640, 360>>, <<424, 240>>>>, r), n)
              =>
                 \/ n = 960 * 540
                 \/ n = 848 * 480
                 \/ n = 640 * 480
                 \/ n = 640 * 360
                 \/ n = 424 * 240
<1> DEFINE s == <<<<960, 540>>, <<848, 480>>, VGA, <<640, 360>>, <<424, 240>>>>
           area(k) == s[k][1] * s[k][2]
<1>1. s \in Seq(Nat \X Nat) /\ Len(s) = 5
  BY DEF VGA
<1>2. /\ area(1) = 960 * 540
      /\ area(2) = 848 * 480
      /\ area(3) = 640 * 480
      /\ area(4) = 640 * 360
      /\ area(5) = 424 * 240
  BY DEF VGA
<1> HIDE DEF s, area
<1>3. \A k \in 1..Len(s) : k = 1 \/ k = 2 \/ k = 3 \/ k = 4 \/ k = 5
  BY <1>1
<1>4. \A i, j \in 1..Len(s) : area(i) = area(j) => i = j
  BY <1>2, <1>3
<1>5. SizeRun(s)
  BY <1>1, <1>4 DEF SizeRun, area
<1>6. /\ Each(s, r) \in Table
      /\ \A n : Offers(Each(s, r), n) => \E k \in 1..Len(s) : area(k) = n
  BY <1>5, EachSize DEF area
<1> QED BY <1>2, <1>3, <1>6 DEF s

\* the large sizes of the onsemi RGB sensor,
LEMMA RunOnsemi ==
  ASSUME NEW r \in Rates
  PROVE  /\ Each(<<<<1280, 720>>, <<1920, 1080>>, <<2048, 1536>>>>, r) \in Table
         /\ \A n : Offers(Each(<<<<1280, 720>>, <<1920, 1080>>, <<2048, 1536>>>>, r), n) =>
                 \/ n = 1280 * 720
                 \/ n = 1920 * 1080
                 \/ n = 2048 * 1536
<1> DEFINE s == <<<<1280, 720>>, <<1920, 1080>>, <<2048, 1536>>>>
           area(k) == s[k][1] * s[k][2]
<1>1. s \in Seq(Nat \X Nat) /\ Len(s) = 3
  OBVIOUS
<1>2. /\ area(1) = 1280 * 720
      /\ area(2) = 1920 * 1080
      /\ area(3) = 2048 * 1536
  OBVIOUS
<1> HIDE DEF s, area
<1>3. \A k \in 1..Len(s) : k = 1 \/ k = 2 \/ k = 3
  BY <1>1
<1>4. \A i, j \in 1..Len(s) : area(i) = area(j) => i = j
  BY <1>2, <1>3
<1>5. SizeRun(s)
  BY <1>1, <1>4 DEF SizeRun, area
<1>6. /\ Each(s, r) \in Table
      /\ \A n : Offers(Each(s, r), n) => \E k \in 1..Len(s) : area(k) = n
  BY <1>5, EachSize DEF area
<1> QED BY <1>2, <1>3, <1>6 DEF s

\* and any two sizes of different areas.
LEMMA RunTwo ==
  ASSUME NEW r \in Rates, NEW w1 \in Nat, NEW h1 \in Nat, NEW w2 \in Nat, NEW h2 \in Nat,
         w1 * h1 # w2 * h2
  PROVE  /\ Each(<<<<w1, h1>>, <<w2, h2>>>>, r) \in Table
         /\ \A n : Offers(Each(<<<<w1, h1>>, <<w2, h2>>>>, r), n) =>
                 n = w1 * h1 \/ n = w2 * h2
<1> DEFINE s == <<<<w1, h1>>, <<w2, h2>>>>
<1>1. s \in Seq(Nat \X Nat) /\ Len(s) = 2
  OBVIOUS
<1>2. s[1][1] = w1 /\ s[1][2] = h1 /\ s[2][1] = w2 /\ s[2][2] = h2
  OBVIOUS
<1> HIDE DEF s
<1>3. \A k \in 1..Len(s) : k = 1 \/ k = 2
  BY <1>1
<1>4. SizeRun(s)
  BY <1>1, <1>2, <1>3 DEF SizeRun
<1>5. /\ Each(s, r) \in Table
      /\ \A n : Offers(Each(s, r), n) => \E k \in 1..Len(s) : s[k][1] * s[k][2] = n
  BY <1>4, EachSize
<1> QED BY <1>2, <1>3, <1>5 DEF s

-----------------------------------------------------------------------------
(* The tables.                                                             *)

LEMMA CommonTable ==
  /\ D401_COMMON_RES \in Table
  /\ ~Offers(D401_COMMON_RES, 256 * 144)
<1> DEFINE a == <<Res(1280, 720, ds5_framerate_to_30)>>
           b == Each(<<<<848, 480>>, VGA>> \o Small, ds5_framerate_to_60)
<1>1. a \in Table /\ \A n : Offers(a, n) => n = 1280 * 720
  BY OneSize, RatesTyped
<1>2. b \in Table /\ ~Offers(b, 1280 * 720) /\ ~Offers(b, 256 * 144)
  BY RunWide, RatesTyped
<1> HIDE DEF a, b
<1>3. a \o b \in Table /\ \A n : Offers(a \o b, n) => Offers(a, n) \/ Offers(b, n)
  BY <1>1, <1>2, Joined
<1> QED BY <1>1, <1>2, <1>3 DEF D401_COMMON_RES, a, b

\* The depth sizes of D41X and D43X, whatever their rates.
LEMMA DepthTable ==
  ASSUME NEW r1 \in Rates, NEW r2 \in Rates
  PROVE  DepthSizes(r1, r2) \in Table
<1> DEFINE a == <<Res(1280, 720, r1), Res(848, 480, r2), Res(848, 100, <<100>>)>>
           b == Each(<<VGA>> \o Small, r2)
           c == <<Res(256, 144, <<90>>)>>
           wide == {1280 * 720, 848 * 480, 848 * 100}
<1>1. a \in Table /\ \A n : Offers(a, n) => n \in wide
  BY RatesTyped DEF Table, Offers, Area, Res, Resolution
<1>2. b \in Table /\ \A n : Offers(b, n) => n \notin wide /\ n # 256 * 144
  BY RunVGA
<1>3. c \in Table /\ \A n : Offers(c, n) => n = 256 * 144
  BY OneSize, RatesTyped
<1>4. 256 * 144 \notin wide
  OBVIOUS
<1> HIDE DEF a, b, c, wide
<1>5. a \o b \in Table /\ \A n : Offers(a \o b, n) => Offers(a, n) \/ Offers(b, n)
  BY <1>1, <1>2, Joined
<1>6. (a \o b) \o c \in Table
  BY <1>1, <1>2, <1>3, <1>4, <1>5, Joined
<1> QED BY <1>6 DEF DepthSizes, a, b, c

LEMMA IrTables == y8_sizes \in Table /\ y8_41x_sizes \in Table
<1>1. y8_sizes \in Table
  <2> DEFINE a == <<Res(1280, 720, ds5_depth_framerate_to_30)>>
             b == Each(<<<<848, 480>>, VGA>> \o Small, ds5_framerate_to_90)
  <2>1. a \in Table /\ \A n : Offers(a, n) => n = 1280 * 720
    BY OneSize, RatesTyped
  <2>2. b \in Table /\ ~Offers(b, 1280 * 720)
    BY RunWide, RatesTyped
  <2> HIDE DEF a, b
  <2>3. a \o b \in Table
    BY <2>1, <2>2, Joined
  <2> QED BY <2>3 DEF y8_sizes, a, b
<1>2. y8_41x_sizes \in Table
  <2> DEFINE a == <<Res(1920, 1080, ds5_framerate_15_25),
                    Res(1280, 720, ds5_41x_framerate_to_30),
                    Res(960, 540, ds5_framerate_15_25),
                    Res(848, 480, ds5_41x_framerate_to_90),
                    Res(848, 100, <<100>>)>>
             b == Each(<<VGA>> \o Small, ds5_41x_framerate_to_90)
             wide == {1920 * 1080, 1280 * 720, 960 * 540, 848 * 480, 848 * 100}
  <2>1. a \in Table /\ \A n : Offers(a, n) => n \in wide
    BY RatesTyped DEF Table, Offers, Area, Res, Resolution
  <2>2. b \in Table /\ \A n : Offers(b, n) => n \notin wide
    BY RunVGA, RatesTyped
  <2> HIDE DEF a, b, wide
  <2>3. a \o b \in Table
    BY <2>1, <2>2, Joined
  <2> QED BY <2>3 DEF y8_41x_sizes, a, b
<1> QED BY <1>1, <1>2

LEMMA RgbTables ==
  /\ ds5_41x_rgb_sizes \in Table
  /\ ds5_rlt_rgb_sizes \in Table
  /\ ds5_onsemi_rgb_sizes \in Table
<1>1. ds5_41x_rgb_sizes \in Table
  <2> DEFINE a == Each(<<<<1920, 1080>>, <<1280, 720>>>>, ds5_41x_framerate_to_30)
             b == Each(<<<<960, 540>>, <<848, 480>>, VGA, <<640, 360>>, <<424, 240>>>>,
                       ds5_41x_framerate_to_60)
             c == Each(<<<<320, 240>>, <<320, 180>>>>, ds5_41x_framerate_to_60_no_15)
             wide == {1920 * 1080, 1280 * 720}
             narrow == {320 * 240, 320 * 180}
  <2>1. a \in Table /\ \A n : Offers(a, n) => n \in wide
    BY RunTwo, RatesTyped
  <2>2. b \in Table /\ \A n : Offers(b, n) => n \notin wide /\ n \notin narrow
    BY RunRgb, RatesTyped
  <2>3. c \in Table /\ \A n : Offers(c, n) => n \in narrow
    BY RunTwo, RatesTyped
  <2>4. \A n \in wide : n \notin narrow
    OBVIOUS
  <2> HIDE DEF a, b, c, wide, narrow
  <2>5. a \o b \in Table /\ \A n : Offers(a \o b, n) => Offers(a, n) \/ Offers(b, n)
    BY <2>1, <2>2, Joined
  <2>6. (a \o b) \o c \in Table
    BY <2>1, <2>2, <2>3, <2>4, <2>5, Joined
  <2> QED BY <2>6 DEF ds5_41x_rgb_sizes, a, b, c
<1>2. ds5_rlt_rgb_sizes \in Table
  <2> DEFINE a == Each(<<<<1280, 800>>, <<1280, 720>>>>, ds5_framerate_to_30)
             b == Each(<<<<848, 480>>, VGA>>, ds5_framerate_to_60)
             c == Each(Small, ds5_framerate_to_90)
             wide == {1280 * 800, 1280 * 720}
             middle == {848 * 480, 640 * 480}
  <2>1. a \in Table /\ \A n : Offers(a, n) => n \in wide
    BY RunTwo, RatesTyped
  <2>2. b \in Table /\ \A n : Offers(b, n) => n \in middle
    BY RunTwo, RatesTyped DEF VGA
  <2>3. c \in Table /\ \A n : Offers(c, n) => n \notin wide /\ n \notin middle
    BY RunSmall, RatesTyped
  <2>4. \A n \in wide : n \notin middle
    OBVIOUS
  <2> HIDE DEF a, b, c, wide, middle
  <2>5. a \o b \in Table /\ \A n : Offers(a \o b, n) => Offers(a, n) \/ Offers(b, n)
    BY <2>1, <2>2, <2>4, Joined
  <2>6. (a \o b) \o c \in Table
    BY <2>1, <2>2, <2>3, <2>5, Joined
  <2> QED BY <2>6 DEF ds5_rlt_rgb_sizes, a, b, c
<1>3. ds5_onsemi_rgb_sizes \in Table
  <2> DEFINE a == <<Res(640, 480, ds5_framerate_to_90), Res(960, 720, ds5_framerate_to_60)>>
             b == Each(<<<<1280, 720>>, <<1920, 1080>>, <<2048, 1536>>>>, ds5_framerates)
             small == {640 * 480, 960 * 720}
  <2>1. a \in Table /\ \A n : Offers(a, n) => n \in small
    BY RatesTyped DEF Table, Offers, Area, Res, Resolution
  <2>2. b \in Table /\ \A n : Offers(b, n) => n \notin small
    BY RunOnsemi, RatesTyped
  <2> HIDE DEF a, b, small
  <2>3. a \o b \in Table
    BY <2>1, <2>2, Joined
  <2> QED BY <2>3 DEF ds5_onsemi_rgb_sizes, a, b
<1> QED BY <1>1, <1>2, <1>3

LEMMA OtherTables ==
  /\ d40x_depth_sizes \in Table
  /\ d41x_depth_sizes \in Table
  /\ d43x_depth_sizes \in Table
  /\ d46x_depth_sizes \in Table
  /\ d40x_calibration_sizes \in Table
  /\ d41x_calibration_sizes \in Table
  /\ d43x_calibration_sizes \in Table
  /\ d45x_calibration_sizes \in Table
  /\ ds5_size_imu \in Table
  /\ ds5_size_imu_extended \in Table
<1>1. d40x_depth_sizes \in Table
  <2> DEFINE c == <<Res(256, 144, <<90>>)>>
  <2>1. c \in Table /\ \A n : Offers(c, n) => n = 256 * 144
    BY OneSize, RatesTyped
  <2> HIDE DEF c
  <2>2. D401_COMMON_RES \o c \in Table
    BY <2>1, CommonTable, Joined
  <2> QED BY <2>2 DEF d40x_depth_sizes, c
<1>2. d41x_depth_sizes \in Table /\ d43x_depth_sizes \in Table
  BY DepthTable, RatesTyped DEF d41x_depth_sizes, d43x_depth_sizes
<1>3. d46x_depth_sizes \in Table
  BY RunTwo, RatesTyped DEF d46x_depth_sizes, VGA
<1>4. /\ d40x_calibration_sizes \in Table /\ d41x_calibration_sizes \in Table
      /\ d43x_calibration_sizes \in Table /\ d45x_calibration_sizes \in Table
  BY OneSize, RatesTyped DEF d40x_calibration_sizes, d41x_calibration_sizes,
    d43x_calibration_sizes, d45x_calibration_sizes
<1>5. ds5_size_imu \in Table /\ ds5_size_imu_extended \in Table
  BY OneSize, RatesTyped DEF ds5_size_imu, ds5_size_imu_extended
<1> QED BY <1>1, <1>2, <1>3, <1>4, <1>5

LEMMA Singly ==
  ASSUME NEW S, NEW a \in S, NEW b \in S, NEW c \in S
  PROVE  /\ <<a>> \in Seq(S) /\ Len(<<a>>) > 0
         /\ <<a, b, c>> \in Seq(S) /\ Len(<<a, b, c>>) > 0
OBVIOUS

\* Whatever the device and the firmware, every sensor has formats, every format
\* has sizes, every size has rates that ascend, and no two sizes of a format
\* have the same area.
LEMMA FormatsTyped ==
  ASSUME NEW m \in [dev : Device, own : Sensor, fw516 : BOOLEAN], NEW s \in Sensor
  PROVE  /\ FormatsOf(m, s) \in Seq(Format)
         /\ Len(FormatsOf(m, s)) > 0
<1>1. ASSUME NEW d
      PROVE  DepthFormats(d) \in Seq(Format) /\ Len(DepthFormats(d)) > 0
  <2> DEFINE z == CASE d = "D40X" -> d40x_depth_sizes
                    [] d = "D41X" -> d41x_depth_sizes
                    [] d = "D46X" -> d46x_depth_sizes
                    [] OTHER -> d43x_depth_sizes
  <2>1. z \in Table
    BY OtherTables
  <2> HIDE DEF z
  <2>2. Fmt("UYVY8", z) \in Format
    BY <2>1 DEF Fmt, Format, Code
  <2>3. <<Fmt("UYVY8", z)>> \in Seq(Format) /\ Len(<<Fmt("UYVY8", z)>>) > 0
    BY <2>2, Singly
  <2> QED BY <2>3 DEF DepthFormats, z
<1>2. ASSUME NEW z \in Table, NEW c \in Table
      PROVE  YFormats(z, c) \in Seq(Format) /\ Len(YFormats(z, c)) > 0
  <2>1. /\ Fmt("Y8", z) \in Format
        /\ Fmt("VYUY8", z) \in Format
        /\ Fmt("RGB888", c) \in Format
    BY DEF Fmt, Format, Code
  <2> QED BY <2>1, Singly DEF YFormats
<1>3. ASSUME NEW d
      PROVE  IrFormats(d) \in Seq(Format) /\ Len(IrFormats(d)) > 0
  <2>1. CASE d = "D40X"
    BY <1>2, <2>1, CommonTable, OtherTables DEF IrFormats
  <2>2. CASE d = "D41X"
    BY <1>2, <2>2, IrTables, OtherTables DEF IrFormats
  <2>3. CASE d = "D45X"
    BY <1>2, <2>3, IrTables, OtherTables DEF IrFormats
  <2>4. CASE d \notin {"D40X", "D41X", "D45X"}
    BY <1>2, <2>4, IrTables, OtherTables DEF IrFormats
  <2> QED BY <2>1, <2>2, <2>3, <2>4
<1>4. ASSUME NEW d
      PROVE  RgbFormats(d) \in Seq(Format) /\ Len(RgbFormats(d)) > 0
  <2> DEFINE z == CASE d = "D40X" -> D401_COMMON_RES
                    [] d = "D41X" -> ds5_41x_rgb_sizes
                    [] d = "D45X" -> ds5_rlt_rgb_sizes
                    [] OTHER -> ds5_onsemi_rgb_sizes
  <2>1. z \in Table
    BY CommonTable, RgbTables
  <2> HIDE DEF z
  <2>2. Fmt("YUYV8", z) \in Format
    BY <2>1 DEF Fmt, Format, Code
  <2>3. <<Fmt("YUYV8", z)>> \in Seq(Format) /\ Len(<<Fmt("YUYV8", z)>>) > 0
    BY <2>2, Singly
  <2> QED BY <2>3 DEF RgbFormats, z
<1>5. ASSUME NEW f \in BOOLEAN
      PROVE  ImuFormats(f) \in Seq(Format) /\ Len(ImuFormats(f)) > 0
  <2> DEFINE z == IF f THEN ds5_size_imu_extended ELSE ds5_size_imu
  <2>1. z \in Table
    BY OtherTables
  <2> HIDE DEF z
  <2>2. Fmt("Y8", z) \in Format
    BY <2>1 DEF Fmt, Format, Code
  <2>3. <<Fmt("Y8", z)>> \in Seq(Format) /\ Len(<<Fmt("Y8", z)>>) > 0
    BY <2>2, Singly
  <2> QED BY <2>3 DEF ImuFormats, z
<1> QED BY <1>1, <1>3, <1>4, <1>5 DEF FormatsOf, Sensor

-----------------------------------------------------------------------------
(* What the operators find in the tables.                                  *)

LEMMA FirstLeast ==
  ASSUME NEW S \in SUBSET Nat, S # {}
  PROVE  First(S) \in S /\ \A j \in S : First(S) <= j
<1>1. PICK k \in S : \A j \in S : ~ (<<j, k>> \in OpToRel(<, Nat))
  BY NatLessThanWellFounded, WFMin
<1>2. ASSUME NEW j \in S  PROVE k <= j
  <2>1. ~ (j < k)
    BY <1>1 DEF OpToRel
  <2> QED BY <2>1
<1> QED BY <1>2 DEF First

LEMMA FormatsAre ==
  ASSUME inst \in Instance, NEW s \in Sensor
  PROVE  /\ Len(Formats(s)) \in Nat /\ Len(Formats(s)) > 0
         /\ \A f \in 1..Len(Formats(s)) :
              /\ Formats(s)[f].code \in Code
              /\ Formats(s)[f].sizes \in Table
              /\ Len(Formats(s)[f].sizes) \in Nat /\ Len(Formats(s)[f].sizes) > 0
              /\ \A k \in 1..Len(Formats(s)[f].sizes) :
                   Formats(s)[f].sizes[k] \in Resolution
<1>1. Formats(s) \in Seq(Format) /\ Len(Formats(s)) > 0
  BY FormatsTyped, FormatsAssumption DEF Formats
<1>2. Len(Formats(s)) \in Nat /\ \A f \in 1..Len(Formats(s)) : Formats(s)[f] \in Format
  BY <1>1, ElementOfSeq, LenProperties
<1>3. ASSUME NEW z \in Table
      PROVE  Len(z) \in Nat /\ Len(z) > 0 /\ \A k \in 1..Len(z) : z[k] \in Resolution
  BY ElementOfSeq, LenProperties DEF Table
<1> QED BY <1>1, <1>2, <1>3 DEF Format

LEMMA SizesAre ==
  ASSUME inst \in Instance, NEW s \in Sensor
  PROVE  /\ \A f \in 1..Len(Formats(s)) : \A k \in 1..Len(Formats(s)[f].sizes) :
              /\ <<f, k>> \in Sizes(s)
              /\ Size(s, <<f, k>>) = Formats(s)[f].sizes[k]
         /\ \A r \in Sizes(s) :
              /\ r = <<r[1], r[2]>>
              /\ r[1] \in 1..Len(Formats(s))
              /\ r[2] \in 1..Len(Formats(s)[r[1]].sizes)
              /\ Size(s, r) \in Resolution
         /\ <<1, 1>> \in Sizes(s)
<1>1. ASSUME NEW f \in 1..Len(Formats(s)), NEW k \in 1..Len(Formats(s)[f].sizes)
      PROVE  <<f, k>> \in Sizes(s) /\ Size(s, <<f, k>>) = Formats(s)[f].sizes[k]
  BY DEF Sizes, Size
<1>2. ASSUME NEW r \in Sizes(s)
      PROVE  \E f \in 1..Len(Formats(s)) : \E k \in 1..Len(Formats(s)[f].sizes) : r = <<f, k>>
  BY DEF Sizes
<1>3. ASSUME NEW r \in Sizes(s)
      PROVE  /\ r = <<r[1], r[2]>>
             /\ r[1] \in 1..Len(Formats(s))
             /\ r[2] \in 1..Len(Formats(s)[r[1]].sizes)
             /\ Size(s, r) \in Resolution
  <2>1. PICK f \in 1..Len(Formats(s)) : \E k \in 1..Len(Formats(s)[f].sizes) : r = <<f, k>>
    BY <1>2
  <2>2. PICK k \in 1..Len(Formats(s)[f].sizes) : r = <<f, k>>
    BY <2>1
  <2>3. r[1] = f /\ r[2] = k
    BY <2>2
  <2> QED BY <1>1, <2>2, <2>3, FormatsAre
<1>4. <<1, 1>> \in Sizes(s)
  <2>1. 1 \in 1..Len(Formats(s))
    BY FormatsAre
  <2>2. 1 \in 1..Len(Formats(s)[1].sizes)
    BY <2>1, FormatsAre
  <2> QED BY <1>1, <2>1, <2>2
<1> QED BY <1>1, <1>3, <1>4

\* Find is some format; the one with the code if there is one; and it finds
\* the same one by the code of what it found.
LEMMA FindIs ==
  ASSUME inst \in Instance, NEW s \in Sensor, NEW c
  PROVE  /\ Find(s, c) \in 1..Len(Formats(s))
         /\ c \in EnumCodes(s) => Formats(s)[Find(s, c)].code = c
         /\ Find(s, Formats(s)[Find(s, c)].code) = Find(s, c)
         /\ Formats(s)[Find(s, c)].code \in EnumCodes(s)
<1> DEFINE n == Len(Formats(s))
<1>1. n \in Nat /\ n > 0
  BY FormatsAre
<1>2. \A d : WithCode(s, d) \in SUBSET Nat /\ WithCode(s, d) \subseteq 1..n
  BY DEF WithCode
<1>3. c \in EnumCodes(s) => WithCode(s, c) # {}
  BY DEF EnumCodes, Elements, WithCode
<1>4. \A i \in 1..n : Formats(s)[i].code \in EnumCodes(s)
  BY DEF EnumCodes, Elements
<1>5. CASE WithCode(s, c) = {}
  <2>1. Find(s, c) = 1
    BY <1>5 DEF Find
  <2>2. 1 \in WithCode(s, Formats(s)[1].code)
    BY <1>1 DEF WithCode
  <2>3. /\ First(WithCode(s, Formats(s)[1].code)) \in 1..n
        /\ First(WithCode(s, Formats(s)[1].code)) <= 1
    BY <1>2, <2>2, FirstLeast
  <2>4. Find(s, Formats(s)[1].code) = 1
    BY <1>1, <2>2, <2>3 DEF Find
  <2> QED BY <1>1, <1>3, <1>4, <1>5, <2>1, <2>4
<1>6. CASE WithCode(s, c) # {}
  <2>1. Find(s, c) = First(WithCode(s, c)) /\ Find(s, c) \in WithCode(s, c)
    BY <1>2, <1>6, FirstLeast DEF Find
  <2>2. Find(s, c) \in 1..n /\ Formats(s)[Find(s, c)].code = c
    BY <2>1 DEF WithCode
  <2> QED BY <1>4, <2>2
<1> QED BY <1>5, <1>6

LEMMA DefaultOffered ==
  ASSUME NEW rates \in Rates
  PROVE  DefaultRate(rates) \in Elements(rates)
BY DEF DefaultRate, Elements, Rates

\* The rate chosen is offered; it is the least that is enough, or the highest.
LEMMA ProbeRateIs ==
  ASSUME NEW rates \in Rates, NEW target \in Int
  PROVE  LET granted == ProbeRate(rates, target) IN
         /\ granted \in Elements(rates)
         /\ \A r \in Elements(rates) : r >= target => granted >= target /\ granted <= r
         /\ granted < target => \A r \in Elements(rates) : r <= granted
<1> DEFINE enough == {k \in 1..Len(rates) : target <= rates[k]}
           granted == ProbeRate(rates, target)
<1>1. /\ Len(rates) \in Nat /\ Len(rates) > 0
      /\ \A i \in 1..Len(rates) : rates[i] \in Nat
      /\ \A i, j \in 1..Len(rates) : i <= j => rates[i] <= rates[j]
  BY ElementOfSeq DEF Rates
<1>2. CASE enough = {}
  <2>1. granted = rates[Len(rates)]
    BY <1>2 DEF ProbeRate
  <2>2. \A i \in 1..Len(rates) : rates[i] < target /\ rates[i] <= rates[Len(rates)]
    BY <1>1, <1>2
  <2> HIDE DEF granted
  <2> QED BY <1>1, <2>1, <2>2 DEF Elements, granted
<1>3. CASE enough # {}
  <2>1. granted = rates[First(enough)]
    BY <1>3 DEF ProbeRate
  <2>2. First(enough) \in enough /\ \A j \in enough : First(enough) <= j
    <3>1. enough \in SUBSET Nat
      OBVIOUS
    <3> QED BY <1>3, <3>1, FirstLeast
  <2>3. First(enough) \in 1..Len(rates) /\ target <= rates[First(enough)]
    BY <2>2
  <2>4. ASSUME NEW i \in 1..Len(rates), rates[i] >= target
        PROVE  rates[First(enough)] <= rates[i]
    <3>1. i \in enough
      BY <1>1, <2>4
    <3> QED BY <1>1, <2>2, <2>3, <3>1
  <2> HIDE DEF granted, enough
  <2> QED BY <1>1, <2>1, <2>3, <2>4 DEF Elements, granted
<1> QED BY <1>2, <1>3

-----------------------------------------------------------------------------
(* The types, those of the calls in progress included.                     *)

Single(S) == \A x, y \in S : x = y
Offered(a) == Formats(a.sensor)[Find(a.sensor, a.ask.code)].sizes

FmtTyped ==
  DOMAIN fmt = Sensor /\ \A s \in Sensor : fmt[s] \in 1..Len(Formats(s))
ResTyped ==
  DOMAIN res = Sensor /\ \A s \in Sensor : res[s] \in Sizes(s)
RateTyped ==
  /\ DOMAIN rate = Sensor
  /\ \A s \in Sensor : \E r \in Sizes(s) : rate[s] \in Elements(Size(s, r).rates)
ReportTyped ==
  /\ DOMAIN reported = Sensor
  /\ \A s \in Sensor :
       \E r \in Sizes(s) : reported[s] = Report(Formats(s)[r[1]].code, Size(s, r))
\* There is one set_fmt at a time, and its best size is one it looks through.
AskedTyped ==
  /\ Single(asked)
  /\ asked \subseteq
       [sensor : Sensor, best : Nat,
        ask : [try : BOOLEAN, code : STRING, width : Nat, height : Nat]]
  /\ \A a \in asked : a.best <= Len(Offered(a))
TimingTyped ==
  /\ Single(timing)
  /\ timing \subseteq [sensor : Sensor, node : Sensor \cup {Mux}, res : Nat \X Nat,
                       target : Nat, clean : BOOLEAN]
  /\ \A t \in timing : t.res \in Sizes(t.sensor)
StartTyped ==
  /\ Single(start)
  /\ start \subseteq [next : {"rate", "width", "height"}, code : Code, rate : Nat,
                      width : Nat, whole : BOOLEAN, fresh : BOOLEAN]
HistoryTyped ==
  lastSet \in Sensor /\ tried \subseteq Sensor /\ stale \subseteq Sensor /\ stray \in BOOLEAN

Typed ==
  /\ inst \in Instance
  /\ FmtTyped /\ ResTyped /\ RateTyped /\ ReportTyped
  /\ AskedTyped /\ TimingTyped /\ StartTyped /\ HistoryTyped

\* The kind of an instance never changes, so neither do its tables.
LEMMA Fixed ==
  ASSUME inst' = inst
  PROVE  /\ \A s : Formats(s)' = Formats(s) /\ Sizes(s)' = Sizes(s)
         /\ \A s, r : Size(s, r)' = Size(s, r)
         /\ \A s, c : Find(s, c)' = Find(s, c)
<1>1. \A s : Formats(s)' = Formats(s)
  BY DEF Formats
<1>2. \A s : Sizes(s)' = Sizes(s)
  BY <1>1 DEF Sizes
<1>3. \A s, r : Size(s, r)' = Size(s, r)
  BY <1>1 DEF Size
<1>4. \A s, c : WithCode(s, c)' = WithCode(s, c)
  BY <1>1 DEF WithCode
<1>5. \A s, c : Find(s, c)' = Find(s, c)
  BY <1>4 DEF Find
<1> QED BY <1>1, <1>2, <1>3, <1>5

LEMMA TypedKept ==
  ASSUME Typed, inst' = inst
  PROVE  /\ inst' \in Instance
         /\ fmt' = fmt => FmtTyped'
         /\ res' = res => ResTyped'
         /\ rate' = rate => RateTyped'
         /\ reported' = reported => ReportTyped'
         /\ asked' = asked => AskedTyped'
         /\ timing' = timing => TimingTyped'
         /\ start' = start => StartTyped'
<1>1. inst' \in Instance
  BY DEF Typed
<1>2. fmt' = fmt => FmtTyped'
  BY Fixed DEF Typed, FmtTyped
<1>3. res' = res => ResTyped'
  BY Fixed DEF Typed, ResTyped
<1>4. rate' = rate => RateTyped'
  BY Fixed DEF Typed, RateTyped
<1>5. reported' = reported => ReportTyped'
  BY Fixed DEF Typed, ReportTyped
<1>6. asked' = asked => AskedTyped'
  BY Fixed DEF Typed, AskedTyped, Offered
<1>7. timing' = timing => TimingTyped'
  BY Fixed DEF Typed, TimingTyped
<1>8. start' = start => StartTyped'
  BY DEF Typed, StartTyped
<1> QED BY <1>1, <1>2, <1>3, <1>4, <1>5, <1>6, <1>7, <1>8

LEMMA TypedInit ==
  ASSUME Init
  PROVE  Typed
<1>1. inst \in Instance /\ inst.own \in Sensor
  BY FormatsAssumption DEF Init
<1>2. ASSUME NEW s \in Sensor
      PROVE  /\ 1 \in 1..Len(Formats(s))
             /\ <<1, 1>> \in Sizes(s)
             /\ Size(s, <<1, 1>>) \in Resolution
             /\ DefaultRate(Size(s, <<1, 1>>).rates) \in Elements(Size(s, <<1, 1>>).rates)
  <2>1. /\ 1 \in 1..Len(Formats(s))
        /\ <<1, 1>> \in Sizes(s)
        /\ Size(s, <<1, 1>>) \in Resolution
    BY <1>1, FormatsAre, SizesAre
  <2> QED BY <2>1, DefaultOffered DEF Resolution
<1>3. FmtTyped /\ ResTyped /\ RateTyped
  BY <1>2 DEF Init, FmtTyped, ResTyped, RateTyped
<1>4. ReportTyped
  <2>1. ASSUME NEW s \in Sensor
        PROVE  reported[s] = Report(Formats(s)[<<1, 1>>[1]].code, Size(s, <<1, 1>>))
    BY DEF Init
  <2> QED BY <1>2, <2>1 DEF Init, ReportTyped
<1>5. AskedTyped /\ TimingTyped /\ StartTyped /\ HistoryTyped
  BY <1>1 DEF Init, AskedTyped, TimingTyped, StartTyped, HistoryTyped, Single
<1> QED BY <1>1, <1>3, <1>4, <1>5 DEF Typed

LEMMA SearchIs ==
  ASSUME Typed, NEW a \in asked
  PROVE  /\ a.sensor \in Sensor
         /\ Find(a.sensor, a.ask.code) \in 1..Len(Formats(a.sensor))
         /\ Offered(a) \in Table /\ Len(Offered(a)) \in Nat /\ Len(Offered(a)) > 0
         /\ a.best \in 0..Len(Offered(a))
         /\ \A k \in 1..Len(Offered(a)) :
              /\ <<Find(a.sensor, a.ask.code), k>> \in Sizes(a.sensor)
              /\ Size(a.sensor, <<Find(a.sensor, a.ask.code), k>>) = Offered(a)[k]
         /\ Nearer(a) \in SUBSET (a.best + 1..Len(Offered(a)))
         /\ Nearer(a) # {} => /\ First(Nearer(a)) \in Nearer(a)
                              /\ \A j \in Nearer(a) : First(Nearer(a)) <= j
         /\ Nearer(a) = {} => a.best \in 1..Len(Offered(a))
<1> DEFINE f == Find(a.sensor, a.ask.code)
<1>1. inst \in Instance /\ a.sensor \in Sensor /\ a.best \in Nat /\ a.best <= Len(Offered(a))
  BY DEF Typed, AskedTyped
<1>2. f \in 1..Len(Formats(a.sensor))
  BY <1>1, FindIs
<1>3. Offered(a) \in Table /\ Len(Offered(a)) \in Nat /\ Len(Offered(a)) > 0
  BY <1>1, <1>2, FormatsAre DEF Offered
<1>4. ASSUME NEW k \in 1..Len(Offered(a))
      PROVE  <<f, k>> \in Sizes(a.sensor) /\ Size(a.sensor, <<f, k>>) = Offered(a)[k]
  BY <1>1, <1>2, SizesAre DEF Offered
<1>5. Nearer(a) \in SUBSET (a.best + 1..Len(Offered(a)))
  BY DEF Nearer, Offered
<1>6. ASSUME Nearer(a) # {}
      PROVE  First(Nearer(a)) \in Nearer(a) /\ \A j \in Nearer(a) : First(Nearer(a)) <= j
  <2>1. Nearer(a) \in SUBSET Nat
    BY <1>1, <1>5
  <2> QED BY <1>6, <2>1, FirstLeast
<1>7. ASSUME Nearer(a) = {}
      PROVE  a.best \in 1..Len(Offered(a))
  <2>1. a.best = 0 => 1 \in Nearer(a)
    BY <1>3 DEF Nearer, Offered
  <2> QED BY <1>1, <1>3, <1>7, <2>1
<1> QED BY <1>1, <1>2, <1>3, <1>4, <1>5, <1>6, <1>7

LEMMA TargetIs ==
  ASSUME inst \in Instance, NEW node \in Node[inst]
  PROVE  node \in Sensor \cup {Mux} /\ Target(node) \in Sensor
BY FormatsAssumption DEF Target

LEMMA TypedStep ==
  ASSUME Typed, [Next]_vars
  PROVE  Typed'
<1> USE DEF history
<1>1. inst' = inst
  BY DEF vars, Next, SetFmtBegin, IntervalBegin, Improve, SetFmtEnd, IntervalEnd,
    StartFormat, StartRate, StartWidth, StartHeight
<1>2. /\ fmt' = fmt => FmtTyped'
      /\ res' = res => ResTyped'
      /\ rate' = rate => RateTyped'
      /\ reported' = reported => ReportTyped'
      /\ asked' = asked => AskedTyped'
      /\ timing' = timing => TimingTyped'
      /\ start' = start => StartTyped'
      /\ inst' \in Instance
  BY <1>1, TypedKept
<1>3. inst \in Instance /\ inst.own \in Sensor
  BY FormatsAssumption DEF Typed
<1>4. ASSUME NEW node \in Node[inst], NEW q \in Request[inst], SetFmtBegin(node, q)
      PROVE  Typed'
  <2>1. /\ Target(node) \in Sensor
        /\ q \in [try : BOOLEAN, code : STRING, width : Nat, height : Nat]
    BY <1>3, TargetIs, FormatsAssumption
  <2>2. AskedTyped'
    <3> DEFINE a == [sensor |-> Target(node), ask |-> q, best |-> 0]
    <3>1. Len(Formats(a.sensor)[Find(a.sensor, q.code)].sizes) \in Nat
      BY <1>3, <2>1, FindIs, FormatsAre
    <3>2. asked' = {a}
      BY <1>4 DEF SetFmtBegin
    <3>3. 0 <= Len(Offered(a)')
      BY <1>1, <3>1, Fixed DEF Offered
    <3> QED BY <2>1, <3>2, <3>3 DEF AskedTyped, Single
  <2>3. TimingTyped'
    <3>1. ASSUME NEW u \in timing'
          PROVE  \E t \in timing : \E c \in BOOLEAN : u = [t EXCEPT !.clean = c]
      <4>1. PICK t \in timing : u = [t EXCEPT !.clean = t.clean /\ t.sensor # Target(node)]
        BY <1>4 DEF SetFmtBegin
      <4> QED BY <4>1
    <3>2. Single(timing')
      BY <1>4 DEF SetFmtBegin, Typed, TimingTyped, Single
    <3>3. ASSUME NEW t \in timing, NEW c \in BOOLEAN
          PROVE  /\ [t EXCEPT !.clean = c] \in
                      [sensor : Sensor, node : Sensor \cup {Mux}, res : Nat \X Nat,
                       target : Nat, clean : BOOLEAN]
                 /\ [t EXCEPT !.clean = c].res \in Sizes([t EXCEPT !.clean = c].sensor)
      <4>1. /\ [t EXCEPT !.clean = c].res = t.res
            /\ [t EXCEPT !.clean = c].sensor = t.sensor
        BY DEF Typed, TimingTyped
      <4> QED BY <4>1 DEF Typed, TimingTyped
    <3> QED BY <1>1, <3>1, <3>2, <3>3, Fixed DEF TimingTyped
  <2>4. StartTyped'
    <3>1. ASSUME NEW u \in start'
          PROVE  \E p \in start : \E w \in BOOLEAN : u = [p EXCEPT !.whole = w]
      <4>1. PICK p \in start : u = [p EXCEPT !.whole = p.whole /\ Target(node) # inst.own]
        BY <1>4 DEF SetFmtBegin
      <4> QED BY <4>1
    <3>2. Single(start')
      BY <1>4 DEF SetFmtBegin, Typed, StartTyped, Single
    <3> QED BY <3>1, <3>2 DEF Typed, StartTyped
  <2>5. HistoryTyped'
    BY <1>4, <2>1 DEF SetFmtBegin, Typed, HistoryTyped
  <2> QED BY <1>2, <1>4, <2>2, <2>3, <2>4, <2>5 DEF SetFmtBegin, Typed
<1>5. ASSUME NEW node \in Node[inst], NEW v \in Interval[inst], IntervalBegin(node, v)
      PROVE  Typed'
  <2>1. PICK s : s = IF node = Mux THEN lastSet ELSE node
    OBVIOUS
  <2>2. /\ s \in Sensor /\ node \in Sensor \cup {Mux}
        /\ v[1] \in Nat \ {0} /\ v[2] \in Nat
    BY <1>3, <2>1, TargetIs, FormatsAssumption DEF Typed, HistoryTyped
  <2>3. v[2] \div v[1] \in Nat
    BY <2>2
  <2>4. PICK r : r = res[s]
    OBVIOUS
  <2>5. r \in Sizes(s) /\ r \in Nat \X Nat
    <3>1. r \in Sizes(s)
      BY <2>2, <2>4 DEF Typed, ResTyped
    <3>2. /\ r = <<r[1], r[2]>>
          /\ r[1] \in 1..Len(Formats(s))
          /\ r[2] \in 1..Len(Formats(s)[r[1]].sizes)
      BY <1>3, <2>2, <3>1, SizesAre
    <3>3. r[1] \in Nat /\ r[2] \in Nat
      BY <1>3, <2>2, <3>2, FormatsAre
    <3>4. <<r[1], r[2]>> \in Nat \X Nat
      BY <3>3
    <3> QED BY <3>1, <3>2, <3>4
  <2>6. PICK c \in BOOLEAN : c = (~SettingFormat(s) /\ (node = Mux => ~stray))
    OBVIOUS
  <2>7. PICK t : t = [sensor |-> s, node |-> node, res |-> r, target |-> v[2] \div v[1],
                      clean |-> c]
    OBVIOUS
  <2>8. timing' = {t}
    BY <1>5, <2>1, <2>4, <2>6, <2>7 DEF IntervalBegin
  <2>9. t \in [sensor : Sensor, node : Sensor \cup {Mux}, res : Nat \X Nat,
               target : Nat, clean : BOOLEAN]
    BY <2>2, <2>3, <2>5, <2>7
  <2>10. t.res \in Sizes(t.sensor)'
    BY <1>1, <2>5, <2>7, Fixed
  <2>11. TimingTyped'
    BY <2>8, <2>9, <2>10 DEF TimingTyped, Single
  <2> QED BY <1>2, <1>5, <2>11 DEF IntervalBegin, Typed, HistoryTyped
<1>6. ASSUME Improve
      PROVE  Typed'
  <2>1. PICK a \in asked :
          LET k == First(Nearer(a)) IN
          /\ Nearer(a) # {}
          /\ res' = [res EXCEPT ![a.sensor] = <<Find(a.sensor, a.ask.code), k>>]
          /\ asked' = {[a EXCEPT !.best = k]}
          /\ UNCHANGED <<fmt, rate, reported, lastSet, timing, start, tried, stale, stray>>
    BY <1>6 DEF Improve
  <2> DEFINE k == First(Nearer(a))
  <2>2. k \in 1..Len(Offered(a)) /\ k \in Nat
    <3>1. /\ k \in a.best + 1..Len(Offered(a))
          /\ a.best \in 0..Len(Offered(a))
          /\ Len(Offered(a)) \in Nat
      BY <2>1, SearchIs
    <3> QED BY <3>1
  <2>3. ResTyped'
    <3>1. <<Find(a.sensor, a.ask.code), k>> \in Sizes(a.sensor)
      BY <2>2, SearchIs
    <3> HIDE DEF k
    <3> QED BY <1>1, <2>1, <3>1, Fixed DEF Typed, ResTyped, k
  <2>4. AskedTyped'
    <3>1. PICK b : b = [a EXCEPT !.best = k] /\ asked' = {b}
      BY <2>1
    <3>2. b \in [sensor : Sensor, best : Nat,
                 ask : [try : BOOLEAN, code : STRING, width : Nat, height : Nat]]
      BY <2>2, <3>1 DEF Typed, AskedTyped
    <3>3. b.best = k /\ b.sensor = a.sensor /\ b.ask = a.ask
      BY <3>1 DEF Typed, AskedTyped
    <3>4. b.best <= Len(Offered(b)')
      BY <1>1, <2>2, <3>3, Fixed, SearchIs DEF Offered
    <3> QED BY <3>1, <3>2, <3>4 DEF AskedTyped, Single
  <2> QED BY <1>2, <2>1, <2>3, <2>4 DEF Typed, HistoryTyped
<1>7. ASSUME SetFmtEnd
      PROVE  Typed'
  <2>1. PICK a \in asked :
          LET s == a.sensor
              f == Find(s, a.ask.code)
          IN
          /\ Nearer(a) = {}
          /\ fmt' = [fmt EXCEPT ![s] = f]
          /\ \/ reported' = reported
             \/ reported' = [reported EXCEPT ![s] =
                   Report(Formats(s)[f].code, Formats(s)[f].sizes[a.best])]
          /\ tried' = tried \cup {s} \/ tried' = tried \ {s}
          /\ lastSet' = s
          /\ stray' = (s # inst.own)
          /\ asked' = {}
          /\ UNCHANGED <<res, rate, timing, start, stale>>
    BY <1>7 DEF SetFmtEnd
  <2> DEFINE s == a.sensor
             f == Find(s, a.ask.code)
             r == <<f, a.best>>
  <2>2. s \in Sensor /\ f \in 1..Len(Formats(s))
    BY SearchIs
  <2>3. FmtTyped'
    <3> HIDE DEF s, f
    <3> QED BY <1>1, <2>1, <2>2, Fixed DEF Typed, FmtTyped, s, f
  <2>4. ReportTyped'
    <3>1. CASE reported' = reported
      BY <1>2, <3>1
    <3>2. CASE reported' # reported
      <4>1. r \in Sizes(s) /\ Size(s, r) = Formats(s)[f].sizes[a.best]
        BY <2>1, SearchIs DEF Offered
      <4>2. r[1] = f
        OBVIOUS
      <4>3. reported' = [reported EXCEPT ![s] = Report(Formats(s)[r[1]].code, Size(s, r))]
        BY <2>1, <3>2, <4>1, <4>2
      <4> HIDE DEF r, s
      <4>4. ASSUME NEW u \in Sensor
            PROVE  \E z \in Sizes(u) : reported'[u] = Report(Formats(u)[z[1]].code, Size(u, z))
        BY <2>2, <4>1, <4>3 DEF Typed, ReportTyped
      <4> QED BY <1>1, <4>3, <4>4, Fixed DEF Typed, ReportTyped
    <3> QED BY <3>1, <3>2
  <2>5. AskedTyped'
    BY <2>1 DEF AskedTyped, Single
  <2>6. HistoryTyped'
    BY <2>1, <2>2 DEF Typed, HistoryTyped
  <2> QED BY <1>2, <2>1, <2>3, <2>4, <2>5, <2>6 DEF Typed
<1>8. ASSUME IntervalEnd
      PROVE  Typed'
  <2>1. PICK t \in timing :
          /\ rate' = [rate EXCEPT ![t.sensor] =
                        ProbeRate(Size(t.sensor, t.res).rates, t.target % U16)]
          /\ \/ stale' = stale \ {Target(t.node)}
             \/ stale' = stale \cup {t.sensor}
          /\ timing' = {}
          /\ UNCHANGED <<fmt, res, reported, lastSet, asked, start, tried, stray>>
    BY <1>8 DEF IntervalEnd
  <2>2. t.sensor \in Sensor /\ t.res \in Sizes(t.sensor) /\ t.target \in Nat
    BY DEF Typed, TimingTyped
  <2>3. RateTyped'
    <3> DEFINE rates == Size(t.sensor, t.res).rates
               granted == ProbeRate(rates, t.target % U16)
    <3>1. rates \in Rates
      BY <1>3, <2>2, SizesAre DEF Resolution
    <3>2. t.target % U16 \in Int
      BY <2>2 DEF U16
    <3>3. granted \in Elements(rates)
      BY <3>1, <3>2, ProbeRateIs
    <3>4. rate' = [rate EXCEPT ![t.sensor] = granted]
      BY <2>1
    <3> HIDE DEF granted
    <3>5. ASSUME NEW u \in Sensor
          PROVE  \E r \in Sizes(u) : rate'[u] \in Elements(Size(u, r).rates)
      BY <2>2, <3>3, <3>4 DEF Typed, RateTyped
    <3> QED BY <1>1, <3>4, <3>5, Fixed DEF Typed, RateTyped
  <2>4. TimingTyped'
    BY <2>1 DEF TimingTyped, Single
  <2>5. HistoryTyped'
    BY <2>1, <2>2 DEF Typed, HistoryTyped
  <2> QED BY <1>2, <2>1, <2>3, <2>4, <2>5 DEF Typed
<1>9. ASSUME StartFormat
      PROVE  Typed'
  <2>1. Formats(inst.own)[fmt[inst.own]].code \in Code
    BY <1>3, FormatsAre DEF Typed, FmtTyped
  <2>2. StartTyped'
    <3> DEFINE c == Formats(inst.own)[fmt[inst.own]].code
               w == ~SettingFormat(inst.own)
    <3>1. start' = {[next |-> "rate", code |-> c, rate |-> 0, width |-> 0,
                     whole |-> w, fresh |-> FALSE]}
      BY <1>9 DEF StartFormat
    <3>2. c \in Code /\ w \in BOOLEAN
      BY <2>1
    <3> HIDE DEF c, w
    <3> QED BY <3>1, <3>2 DEF StartTyped, Single
  <2> QED BY <1>2, <1>9, <2>2 DEF StartFormat, Typed, HistoryTyped
<1>10. ASSUME StartRate
       PROVE  Typed'
  <2>1. rate[inst.own] \in Nat
    <3>1. PICK r \in Sizes(inst.own) : rate[inst.own] \in Elements(Size(inst.own, r).rates)
      BY <1>3 DEF Typed, RateTyped
    <3>2. Size(inst.own, r).rates \in Rates
      BY <1>3, <3>1, SizesAre DEF Resolution
    <3> QED BY <3>1, <3>2, ElementOfSeq DEF Rates, Elements
  <2>2. StartTyped'
    <3>1. PICK p \in start :
            start' = {[p EXCEPT !.next = "width", !.rate = rate[inst.own],
                                !.fresh = inst.own \notin stale]}
      BY <1>10 DEF StartRate
    <3> QED BY <2>1, <3>1 DEF Typed, StartTyped, Single
  <2> QED BY <1>2, <1>10, <2>2 DEF StartRate, Typed, HistoryTyped
<1>11. ASSUME StartWidth
       PROVE  Typed'
  <2>1. Size(inst.own, res[inst.own]).width \in Nat
    BY <1>3, SizesAre DEF Typed, ResTyped, Resolution
  <2>2. StartTyped'
    <3>1. PICK p \in start :
            start' = {[p EXCEPT !.next = "height",
                                !.width = Size(inst.own, res[inst.own]).width]}
      BY <1>11 DEF StartWidth
    <3> QED BY <2>1, <3>1 DEF Typed, StartTyped, Single
  <2> QED BY <1>2, <1>11, <2>2 DEF StartWidth, Typed, HistoryTyped
<1>12. ASSUME StartHeight
       PROVE  Typed'
  <2>1. StartTyped'
    BY <1>12 DEF StartHeight, StartTyped, Single
  <2> QED BY <1>2, <1>12, <2>1 DEF StartHeight, Typed, HistoryTyped
<1>13. ASSUME UNCHANGED vars
       PROVE  Typed'
  BY <1>2, <1>13 DEF vars, Typed, HistoryTyped
<1> QED BY <1>4, <1>5, <1>6, <1>7, <1>8, <1>9, <1>10, <1>11, <1>12, <1>13 DEF Next

\* The invariant of types.
LEMMA TypedHolds == Spec => []Typed
BY TypedInit, TypedStep, PTL DEF Spec

-----------------------------------------------------------------------------
(* What the calls in progress know of the configuration.                   *)

\* The configured size is the nearest of those the search has seen.
Searched ==
  \A a \in asked : a.best > 0 =>
    /\ res[a.sensor] = <<Find(a.sensor, a.ask.code), a.best>>
    /\ \A j \in 1..a.best :
         Distance(a.ask, Offered(a)[a.best]) <= Distance(a.ask, Offered(a)[j])

\* Between two set_fmt the format and the size belong together, and get_fmt
\* tells them unless the last one was to try.
Current ==
  \A s \in Sensor : ~SettingFormat(s) =>
    /\ fmt[s] = res[s][1]
    /\ fmt[s] = Find(s, Formats(s)[fmt[s]].code)
    /\ s \notin tried => reported[s] = Report(Formats(s)[fmt[s]].code, Size(s, res[s]))

\* A rate set after the format is one offered with the size.
Fresh ==
  \A s \in Sensor \ stale :
    ~SettingFormat(s) /\ rate[s] \in Elements(Size(s, res[s]).rates)

\* The mux turns to its own sensor unless another one's node was used.
Unstrayed == stray \/ lastSet = inst.own

\* An s_frame_interval that nobody disturbed works on the size in force.
Clean ==
  \A t \in timing : t.clean =>
    ~SettingFormat(t.sensor) /\ t.res = res[t.sensor] /\ t.sensor = Target(t.node)

\* What a start that nobody disturbed has read is still in force.
Whole ==
  \A p \in start : p.whole =>
    /\ ~SettingFormat(inst.own)
    /\ p.code = Formats(inst.own)[fmt[inst.own]].code
    /\ p.next # "rate" /\ p.fresh =>
         p.rate \in Elements(Size(inst.own, res[inst.own]).rates)
    /\ p.next = "height" => p.width = Size(inst.own, res[inst.own]).width

Known == Searched /\ Current /\ Fresh /\ Unstrayed /\ Clean /\ Whole

LEMMA DistanceTyped ==
  ASSUME NEW q \in [try : BOOLEAN, code : STRING, width : Nat, height : Nat],
         NEW r \in Resolution
  PROVE  Distance(q, r) \in Nat /\ (Distance(q, r) = 0 <=> q.width * q.height = Area(r))
<1>1. /\ q.width \in Nat /\ q.height \in Nat
      /\ r.width \in Nat /\ r.height \in Nat
  BY DEF Resolution
<1>2. PICK m \in Int : m = q.width * q.height
  BY <1>1
<1>3. PICK n \in Int : n = r.width * r.height
  BY <1>1
<1> QED BY <1>2, <1>3 DEF Distance, Abs, Area

\* One step of the search: the first size that is nearer than the best so far is
\* at least as near as all before it.
LEMMA SearchStep ==
  ASSUME Typed, Searched, NEW a \in asked, Nearer(a) # {}
  PROVE  \A j \in 1..First(Nearer(a)) :
           Distance(a.ask, Offered(a)[First(Nearer(a))]) <= Distance(a.ask, Offered(a)[j])
<1>1. PICK k : k = First(Nearer(a))
  OBVIOUS
<1>2. PICK d : d = [j \in 1..Len(Offered(a)) |-> Distance(a.ask, Offered(a)[j])]
  OBVIOUS
<1>3. /\ Len(Offered(a)) \in Nat
      /\ a.best \in 0..Len(Offered(a))
      /\ Nearer(a) \in SUBSET (a.best + 1..Len(Offered(a)))
      /\ k \in Nearer(a)
      /\ \A j \in Nearer(a) : k <= j
  BY <1>1, SearchIs
<1>4. \A j \in 1..Len(Offered(a)) : d[j] \in Nat
  BY <1>2, SearchIs, DistanceTyped, ElementOfSeq DEF Table, Typed, AskedTyped
<1>5. ASSUME NEW j \in a.best + 1..Len(Offered(a))
      PROVE  j \in Nearer(a) <=> a.best = 0 \/ d[j] < d[a.best]
  <2>1. CASE a.best = 0
    BY <2>1 DEF Nearer, Offered
  <2>2. CASE a.best > 0
    <3>1. a.best \in 1..Len(Offered(a)) /\ j \in 1..Len(Offered(a))
      BY <1>3, <2>2
    <3>2. j \in Nearer(a) <=>
            Distance(a.ask, Offered(a)[j]) < Distance(a.ask, Offered(a)[a.best])
      BY <2>2, <3>1 DEF Nearer, Offered
    <3> QED BY <1>2, <2>2, <3>1, <3>2
  <2> QED BY <1>3, <2>1, <2>2
<1>6. a.best > 0 => \A j \in 1..a.best : d[a.best] <= d[j]
  BY <1>2, <1>3 DEF Searched
<1>7. ASSUME NEW j \in 1..k
      PROVE  d[k] <= d[j]
  <2>1. /\ k \in a.best + 1..Len(Offered(a)) /\ k \in 1..Len(Offered(a))
        /\ a.best \in Nat /\ j \in 1..Len(Offered(a)) /\ j <= k
    BY <1>3
  <2>2. CASE a.best = 0
    <3>1. 1 \in Nearer(a)
      BY <1>5, <2>1, <2>2
    <3>2. k = 1 /\ j = 1
      BY <1>3, <2>1, <3>1
    <3> QED BY <1>4, <2>1, <3>2
  <2>3. CASE a.best > 0
    <3>1. d[k] < d[a.best]
      BY <1>3, <1>5, <2>1, <2>3
    <3>2. d[a.best] \in Nat /\ d[j] \in Nat /\ d[k] \in Nat
      BY <1>3, <1>4, <2>1, <2>3
    <3>3. CASE j <= a.best
      BY <1>6, <2>1, <2>3, <3>1, <3>2, <3>3
    <3>4. CASE j > a.best /\ j < k
      <4>1. j \in a.best + 1..Len(Offered(a)) /\ j \notin Nearer(a)
        BY <1>3, <2>1, <3>4
      <4>2. ~(d[j] < d[a.best])
        BY <1>5, <2>3, <4>1
      <4> QED BY <3>1, <3>2, <4>2
    <3>5. CASE j = k
      BY <3>2, <3>5
    <3> QED BY <2>1, <3>3, <3>4, <3>5
  <2> QED BY <2>1, <2>2, <2>3
<1> QED BY <1>1, <1>2, <1>3, <1>7

\* At its end, the best size is at least as near as all.
LEMMA SearchEnd ==
  ASSUME Typed, Searched, NEW a \in asked, Nearer(a) = {}
  PROVE  /\ a.best \in 1..Len(Offered(a))
         /\ res[a.sensor] = <<Find(a.sensor, a.ask.code), a.best>>
         /\ \A j \in 1..Len(Offered(a)) :
              Distance(a.ask, Offered(a)[a.best]) <= Distance(a.ask, Offered(a)[j])
<1>1. PICK d : d = [j \in 1..Len(Offered(a)) |-> Distance(a.ask, Offered(a)[j])]
  OBVIOUS
<1>2. Len(Offered(a)) \in Nat /\ a.best \in 1..Len(Offered(a))
  BY SearchIs
<1>3. \A j \in 1..Len(Offered(a)) : d[j] \in Nat
  BY <1>1, SearchIs, DistanceTyped, ElementOfSeq DEF Table, Typed, AskedTyped
<1>4. {} = {j \in a.best + 1..Len(Offered(a)) : a.best = 0 \/ d[j] < d[a.best]}
  BY <1>1, <1>2 DEF Nearer, Offered
<1>5. /\ res[a.sensor] = <<Find(a.sensor, a.ask.code), a.best>>
      /\ \A j \in 1..a.best : d[a.best] <= d[j]
  BY <1>1, <1>2 DEF Searched
<1>6. ASSUME NEW j \in 1..Len(Offered(a))
      PROVE  d[a.best] <= d[j]
  BY <1>2, <1>3, <1>4, <1>5
<1> QED BY <1>1, <1>2, <1>5, <1>6

LEMMA KnownInit ==
  ASSUME Init
  PROVE  Known
<1>1. inst \in Instance /\ inst.own \in Sensor
  BY FormatsAssumption DEF Init
<1>2. ASSUME NEW s \in Sensor
      PROVE  /\ fmt[s] = 1 /\ res[s] = <<1, 1>> /\ res[s][1] = 1
             /\ rate[s] = DefaultRate(Size(s, <<1, 1>>).rates)
             /\ reported[s] = Report(Formats(s)[1].code, Size(s, <<1, 1>>))
  BY DEF Init
<1>3. ASSUME NEW s \in Sensor
      PROVE  /\ 1 = Find(s, Formats(s)[1].code)
             /\ DefaultRate(Size(s, <<1, 1>>).rates) \in Elements(Size(s, <<1, 1>>).rates)
  <2>1. 1 \in 1..Len(Formats(s)) /\ Size(s, <<1, 1>>).rates \in Rates
    BY <1>1, FormatsAre, SizesAre DEF Resolution
  <2>2. DefaultRate(Size(s, <<1, 1>>).rates) \in Elements(Size(s, <<1, 1>>).rates)
    BY <2>1, DefaultOffered
  <2>3. 1 \in WithCode(s, Formats(s)[1].code)
    BY <2>1 DEF WithCode
  <2>4. WithCode(s, Formats(s)[1].code) \in SUBSET Nat
    BY DEF WithCode
  <2>5. /\ First(WithCode(s, Formats(s)[1].code)) \in WithCode(s, Formats(s)[1].code)
        /\ First(WithCode(s, Formats(s)[1].code)) <= 1
    BY <2>3, <2>4, FirstLeast
  <2>6. 1 = Find(s, Formats(s)[1].code)
    BY <2>3, <2>5 DEF Find, WithCode
  <2> QED BY <2>1, <2>2, <2>6
<1>4. Current /\ Fresh
  <2>1. ASSUME NEW s \in Sensor
        PROVE  /\ fmt[s] = res[s][1]
               /\ fmt[s] = Find(s, Formats(s)[fmt[s]].code)
               /\ reported[s] = Report(Formats(s)[fmt[s]].code, Size(s, res[s]))
               /\ rate[s] \in Elements(Size(s, res[s]).rates)
    <3>1. Size(s, res[s]) = Size(s, <<1, 1>>) /\ Formats(s)[fmt[s]] = Formats(s)[1]
      BY <1>2
    <3> QED BY <1>2, <1>3, <3>1
  <2>2. \A s : ~SettingFormat(s)
    BY DEF Init, SettingFormat
  <2> QED BY <2>1, <2>2 DEF Current, Fresh
<1>5. Searched /\ Unstrayed /\ Clean /\ Whole
  BY DEF Init, Searched, Unstrayed, Clean, Whole
<1> QED BY <1>4, <1>5 DEF Known

LEMMA KnownStep ==
  ASSUME Typed, Known, [Next]_vars
  PROVE  Known'
<1> USE DEF history
<1>1. inst' = inst
  BY DEF vars, Next, SetFmtBegin, IntervalBegin, Improve, SetFmtEnd, IntervalEnd,
    StartFormat, StartRate, StartWidth, StartHeight
<1>2. /\ \A s : Formats(s)' = Formats(s) /\ Sizes(s)' = Sizes(s)
      /\ \A s, r : Size(s, r)' = Size(s, r)
      /\ \A s, c : Find(s, c)' = Find(s, c)
      /\ \A a : Offered(a)' = Offered(a)
      /\ \A n : Target(n)' = Target(n)
  BY <1>1, Fixed DEF Offered, Target
<1>3. inst \in Instance /\ inst.own \in Sensor
  BY FormatsAssumption DEF Typed
\* What a step that leaves the calls and the configuration alone keeps.
<1>4. /\ asked' = asked /\ res' = res => Searched'
      /\ asked' = asked /\ fmt' = fmt /\ res' = res /\ reported' = reported /\ tried' = tried
           => Current'
      /\ asked' = asked /\ res' = res /\ rate' = rate /\ stale' = stale => Fresh'
      /\ lastSet' = lastSet /\ stray' = stray => Unstrayed'
      /\ asked' = asked /\ timing' = timing /\ res' = res => Clean'
      /\ asked' = asked /\ fmt' = fmt /\ res' = res /\ start' = start => Whole'
  <2>1. asked' = asked /\ res' = res => Searched'
    BY <1>2 DEF Known, Searched
  <2>2. asked' = asked /\ fmt' = fmt /\ res' = res /\ reported' = reported /\ tried' = tried
          => Current'
    BY <1>2 DEF Known, Current, SettingFormat
  <2>3. asked' = asked /\ res' = res /\ rate' = rate /\ stale' = stale => Fresh'
    BY <1>2 DEF Known, Fresh, SettingFormat
  <2>4. lastSet' = lastSet /\ stray' = stray => Unstrayed'
    BY <1>1 DEF Known, Unstrayed
  <2>5. asked' = asked /\ timing' = timing /\ res' = res => Clean'
    BY <1>2 DEF Known, Clean, SettingFormat
  <2>6. asked' = asked /\ fmt' = fmt /\ res' = res /\ start' = start => Whole'
    BY <1>1, <1>2 DEF Known, Whole, SettingFormat
  <2> QED BY <2>1, <2>2, <2>3, <2>4, <2>5, <2>6
<1>5. ASSUME NEW node \in Node[inst], NEW q \in Request[inst], SetFmtBegin(node, q)
      PROVE  Known'
  <2>1. PICK s : s = Target(node)
    OBVIOUS
  <2>2. /\ asked = {} /\ asked' = {[sensor |-> s, ask |-> q, best |-> 0]}
        /\ stale' = stale \cup {s}
        /\ timing' = {[t EXCEPT !.clean = t.clean /\ t.sensor # s] : t \in timing}
        /\ start' = {[p EXCEPT !.whole = p.whole /\ s # inst.own] : p \in start}
        /\ UNCHANGED <<fmt, res, rate, reported, lastSet, tried, stray>>
    BY <1>5, <2>1 DEF SetFmtBegin
  <2>3. \A u : ~SettingFormat(u) /\ (SettingFormat(u)' <=> u = s)
    BY <2>2 DEF SettingFormat
  <2>4. Searched'
    BY <2>2 DEF Searched
  <2>5. Current'
    BY <1>2, <2>2, <2>3 DEF Known, Current
  <2>6. Fresh'
    BY <1>2, <2>2, <2>3 DEF Known, Fresh
  <2>7. Clean'
    <3>1. ASSUME NEW u \in timing', u.clean
          PROVE  /\ ~SettingFormat(u.sensor)' /\ u.res = res[u.sensor]
                 /\ u.sensor = Target(u.node)
      <4>1. PICK t \in timing : u = [t EXCEPT !.clean = t.clean /\ t.sensor # s]
        BY <2>2
      <4>2. /\ u.sensor = t.sensor /\ u.res = t.res /\ u.node = t.node
            /\ u.clean = (t.clean /\ t.sensor # s)
        BY <4>1 DEF Typed, TimingTyped
      <4> QED BY <2>3, <3>1, <4>2 DEF Known, Clean
    <3> QED BY <1>2, <2>2, <3>1 DEF Clean
  <2>8. Whole'
    <3>1. ASSUME NEW u \in start', u.whole
          PROVE  /\ s # inst.own
                 /\ \E p \in start : /\ p.whole /\ u.code = p.code /\ u.next = p.next
                                     /\ u.fresh = p.fresh /\ u.rate = p.rate
                                     /\ u.width = p.width
      <4>1. PICK p \in start : u = [p EXCEPT !.whole = p.whole /\ s # inst.own]
        BY <2>2
      <4>2. /\ u.code = p.code /\ u.next = p.next /\ u.fresh = p.fresh
            /\ u.rate = p.rate /\ u.width = p.width
            /\ u.whole = (p.whole /\ s # inst.own)
        BY <4>1 DEF Typed, StartTyped
      <4> QED BY <3>1, <4>2
    <3> QED BY <1>1, <1>2, <2>2, <2>3, <3>1 DEF Known, Whole
  <2> QED BY <1>4, <2>2, <2>4, <2>5, <2>6, <2>7, <2>8 DEF Known
<1>6. ASSUME NEW node \in Node[inst], NEW v \in Interval[inst], IntervalBegin(node, v)
      PROVE  Known'
  <2>1. PICK s : s = IF node = Mux THEN lastSet ELSE node
    OBVIOUS
  <2>2. PICK c : c = (~SettingFormat(s) /\ (node = Mux => ~stray))
    OBVIOUS
  <2>3. /\ timing' = {[sensor |-> s, node |-> node, res |-> res[s],
                       target |-> v[2] \div v[1], clean |-> c]}
        /\ UNCHANGED <<fmt, res, rate, reported, lastSet, asked, start, tried, stale, stray>>
    BY <1>6, <2>1, <2>2 DEF IntervalBegin
  <2>4. c => ~SettingFormat(s)' /\ s = Target(node)
    BY <2>1, <2>2, <2>3 DEF Known, Unstrayed, Target, SettingFormat
  <2>5. Clean'
    BY <1>2, <2>3, <2>4 DEF Clean
  <2> QED BY <1>4, <2>3, <2>5 DEF Known
<1>7. ASSUME Improve
      PROVE  Known'
  <2>1. PICK a \in asked :
          /\ Nearer(a) # {}
          /\ res' = [res EXCEPT ![a.sensor] = <<Find(a.sensor, a.ask.code), First(Nearer(a))>>]
          /\ asked' = {[a EXCEPT !.best = First(Nearer(a))]}
          /\ UNCHANGED <<fmt, rate, reported, lastSet, timing, start, tried, stale, stray>>
    BY <1>7 DEF Improve
  <2>2. PICK k : k = First(Nearer(a))
    OBVIOUS
  <2>3. PICK b : b = [a EXCEPT !.best = k]
    OBVIOUS
  <2>4. a.sensor \in Sensor /\ b.sensor = a.sensor /\ b.ask = a.ask /\ b.best = k
    BY <2>3 DEF Typed, AskedTyped
  <2>5. /\ asked = {a} /\ asked' = {b}
        /\ \A u : (SettingFormat(u) <=> u = a.sensor) /\ (SettingFormat(u)' <=> u = a.sensor)
    BY <2>1, <2>2, <2>3, <2>4 DEF Typed, AskedTyped, Single, SettingFormat
  <2>6. /\ res'[a.sensor] = <<Find(a.sensor, a.ask.code), k>>
        /\ \A u \in Sensor : u # a.sensor => res'[u] = res[u]
    BY <2>1, <2>2, <2>4 DEF Typed, ResTyped
  <2>7. Searched'
    <3>1. \A j \in 1..k : Distance(a.ask, Offered(a)[k]) <= Distance(a.ask, Offered(a)[j])
      BY <2>1, <2>2, SearchStep DEF Known
    <3>2. Offered(b)' = Offered(a)
      BY <1>2, <2>4 DEF Offered
    <3> QED BY <1>2, <2>4, <2>5, <2>6, <3>1, <3>2 DEF Searched
  <2>8. Current'
    BY <1>2, <2>1, <2>5, <2>6 DEF Known, Current
  <2>9. Fresh'
    BY <1>2, <2>1, <2>5, <2>6 DEF Known, Fresh
  <2>10. Clean'
    BY <1>2, <2>1, <2>5, <2>6 DEF Known, Clean, Typed, TimingTyped
  <2>11. Whole'
    BY <1>1, <1>2, <1>3, <2>1, <2>5, <2>6 DEF Known, Whole
  <2> QED BY <1>4, <2>1, <2>7, <2>8, <2>9, <2>10, <2>11 DEF Known
<1>8. ASSUME SetFmtEnd
      PROVE  Known'
  <2>1. PICK a \in asked :
          LET s == a.sensor
              f == Find(s, a.ask.code)
          IN
          /\ Nearer(a) = {}
          /\ fmt' = [fmt EXCEPT ![s] = f]
          /\ IF a.ask.try
               THEN tried' = tried \cup {s} /\ UNCHANGED reported
               ELSE /\ tried' = tried \ {s}
                    /\ reported' = [reported EXCEPT ![s] =
                         Report(Formats(s)[f].code, Formats(s)[f].sizes[a.best])]
          /\ lastSet' = s
          /\ stray' = (s # inst.own)
          /\ asked' = {}
          /\ UNCHANGED <<res, rate, timing, start, stale>>
    BY <1>8 DEF SetFmtEnd
  <2>2. PICK s : s = a.sensor
    OBVIOUS
  <2>3. PICK f : f = Find(s, a.ask.code)
    OBVIOUS
  <2>4. s \in Sensor /\ \A u : (SettingFormat(u) <=> u = s) /\ ~SettingFormat(u)'
    BY <2>1, <2>2 DEF Typed, AskedTyped, Single, SettingFormat
  <2>5. /\ res[s] = <<f, a.best>> /\ res[s][1] = f
        /\ Size(s, res[s]) = Formats(s)[f].sizes[a.best]
        /\ f = Find(s, Formats(s)[f].code)
    <3>1. a.best \in 1..Len(Offered(a)) /\ res[s] = <<f, a.best>>
      BY <2>1, <2>2, <2>3, SearchEnd DEF Known
    <3>2. Size(s, <<f, a.best>>) = Offered(a)[a.best]
      BY <2>2, <2>3, <3>1, SearchIs
    <3>3. f = Find(s, Formats(s)[f].code)
      BY <1>3, <2>3, <2>4, FindIs
    <3> QED BY <2>2, <2>3, <3>1, <3>2, <3>3 DEF Offered
  <2>6. /\ fmt'[s] = f
        /\ s \notin tried' =>
             reported'[s] = Report(Formats(s)[f].code, Formats(s)[f].sizes[a.best])
        /\ \A u \in Sensor : u # s =>
             fmt'[u] = fmt[u] /\ reported'[u] = reported[u] /\ (u \in tried' <=> u \in tried)
    BY <2>1, <2>2, <2>3, <2>4 DEF Typed, FmtTyped, ReportTyped
  <2>7. Searched'
    BY <2>1 DEF Searched
  <2>8. Current'
    <3>1. ASSUME NEW u \in Sensor
          PROVE  /\ fmt'[u] = res[u][1]
                 /\ fmt'[u] = Find(u, Formats(u)[fmt'[u]].code)
                 /\ u \notin tried' =>
                      reported'[u] = Report(Formats(u)[fmt'[u]].code, Size(u, res[u]))
      <4>1. CASE u = s
        BY <2>5, <2>6, <4>1
      <4>2. CASE u # s
        BY <2>4, <2>6, <4>2 DEF Known, Current
      <4> QED BY <4>1, <4>2
    <3> QED BY <1>2, <2>1, <3>1 DEF Current
  <2>9. Fresh'
    BY <1>2, <2>1, <2>4 DEF Known, Fresh
  <2>10. Unstrayed'
    BY <1>1, <2>1 DEF Unstrayed
  <2>11. Clean'
    BY <1>2, <2>1, <2>4 DEF Known, Clean
  <2>12. Whole'
    BY <1>1, <1>2, <1>3, <2>1, <2>4, <2>6 DEF Known, Whole
  <2> QED BY <2>7, <2>8, <2>9, <2>10, <2>11, <2>12 DEF Known
<1>9. ASSUME IntervalEnd
      PROVE  Known'
  <2>1. PICK t \in timing :
          /\ rate' = [rate EXCEPT ![t.sensor] =
                        ProbeRate(Size(t.sensor, t.res).rates, t.target % U16)]
          /\ stale' = IF t.clean THEN stale \ {Target(t.node)} ELSE stale \cup {t.sensor}
          /\ timing' = {}
          /\ UNCHANGED <<fmt, res, reported, lastSet, asked, start, tried, stray>>
    BY <1>9 DEF IntervalEnd
  <2>2. t.sensor \in Sensor /\ t.res \in Sizes(t.sensor) /\ t.target \in Nat
    BY DEF Typed, TimingTyped
  <2>3. PICK granted : granted = ProbeRate(Size(t.sensor, t.res).rates, t.target % U16)
    OBVIOUS
  <2>4. granted \in Elements(Size(t.sensor, t.res).rates)
    <3>1. Size(t.sensor, t.res).rates \in Rates
      BY <1>3, <2>2, SizesAre DEF Resolution
    <3>2. t.target % U16 \in Int
      BY <2>2 DEF U16
    <3> QED BY <2>3, <3>1, <3>2, ProbeRateIs
  <2>5. \A u : SettingFormat(u)' <=> SettingFormat(u)
    BY <2>1 DEF SettingFormat
  <2>6. /\ rate'[t.sensor] = granted
        /\ \A u \in Sensor : u # t.sensor => rate'[u] = rate[u]
    BY <2>1, <2>2, <2>3 DEF Typed, RateTyped
  <2>7. Fresh'
    <3>1. ASSUME NEW u \in Sensor, u \notin stale'
          PROVE  ~SettingFormat(u) /\ rate'[u] \in Elements(Size(u, res[u]).rates)
      <4>1. CASE u = t.sensor
        BY <2>1, <2>4, <2>6, <3>1, <4>1 DEF Known, Clean
      <4>2. CASE u # t.sensor
        <5>1. u \notin stale
          BY <2>1, <3>1, <4>2 DEF Known, Clean
        <5> QED BY <2>6, <4>2, <5>1 DEF Known, Fresh
      <4> QED BY <4>1, <4>2
    <3> QED BY <1>2, <2>1, <2>5, <3>1 DEF Fresh
  <2>8. Clean'
    BY <2>1 DEF Clean
  <2> QED BY <1>4, <2>1, <2>7, <2>8 DEF Known
<1>10. ASSUME StartFormat
       PROVE  Known'
  <2>1. PICK w : w = ~SettingFormat(inst.own)
    OBVIOUS
  <2>2. /\ start' = {[next |-> "rate", code |-> Formats(inst.own)[fmt[inst.own]].code,
                      rate |-> 0, width |-> 0, whole |-> w, fresh |-> FALSE]}
        /\ UNCHANGED <<fmt, res, rate, reported, lastSet, asked, timing, tried, stale, stray>>
    BY <1>10, <2>1 DEF StartFormat
  <2>3. w => ~SettingFormat(inst.own)'
    BY <1>1, <2>1, <2>2 DEF SettingFormat
  <2>4. Whole'
    BY <1>1, <1>2, <2>2, <2>3 DEF Whole
  <2> QED BY <1>4, <2>2, <2>4 DEF Known
<1>11. ASSUME StartRate
       PROVE  Known'
  <2>1. PICK p \in start :
          /\ p.next = "rate"
          /\ start' = {[p EXCEPT !.next = "width", !.rate = rate[inst.own],
                                 !.fresh = inst.own \notin stale]}
          /\ UNCHANGED <<fmt, res, rate, reported, lastSet, asked, timing, tried, stale, stray>>
    BY <1>11 DEF StartRate
  <2>2. \A u : SettingFormat(u)' <=> SettingFormat(u)
    BY <2>1 DEF SettingFormat
  <2>3. Whole'
    <3>1. PICK z : z = [p EXCEPT !.next = "width", !.rate = rate[inst.own],
                                 !.fresh = inst.own \notin stale]
      OBVIOUS
    <3>2. /\ z.next = "width" /\ z.rate = rate[inst.own] /\ z.code = p.code
          /\ z.whole = p.whole /\ z.fresh = (inst.own \notin stale)
      BY <3>1 DEF Typed, StartTyped
    <3>3. z.fresh => z.rate \in Elements(Size(inst.own, res[inst.own]).rates)
      BY <1>3, <3>2 DEF Known, Fresh
    <3>4. p.whole => /\ ~SettingFormat(inst.own)
                     /\ p.code = Formats(inst.own)[fmt[inst.own]].code
      BY DEF Known, Whole
    <3> QED BY <1>1, <1>2, <2>1, <2>2, <3>1, <3>2, <3>3, <3>4 DEF Whole
  <2> QED BY <1>4, <2>1, <2>3 DEF Known
<1>12. ASSUME StartWidth
       PROVE  Known'
  <2>1. PICK p \in start :
          /\ p.next = "width"
          /\ start' = {[p EXCEPT !.next = "height",
                                 !.width = Size(inst.own, res[inst.own]).width]}
          /\ UNCHANGED <<fmt, res, rate, reported, lastSet, asked, timing, tried, stale, stray>>
    BY <1>12 DEF StartWidth
  <2>2. \A u : SettingFormat(u)' <=> SettingFormat(u)
    BY <2>1 DEF SettingFormat
  <2>3. Whole'
    <3>1. PICK z : z = [p EXCEPT !.next = "height",
                                 !.width = Size(inst.own, res[inst.own]).width]
      OBVIOUS
    <3>2. /\ z.next = "height" /\ z.rate = p.rate /\ z.code = p.code
          /\ z.whole = p.whole /\ z.fresh = p.fresh
          /\ z.width = Size(inst.own, res[inst.own]).width
      BY <3>1 DEF Typed, StartTyped
    <3>3. p.whole => /\ ~SettingFormat(inst.own)
                     /\ p.code = Formats(inst.own)[fmt[inst.own]].code
                     /\ p.fresh => p.rate \in Elements(Size(inst.own, res[inst.own]).rates)
      BY <2>1 DEF Known, Whole
    <3> QED BY <1>1, <1>2, <2>1, <2>2, <3>1, <3>2, <3>3 DEF Whole
  <2> QED BY <1>4, <2>1, <2>3 DEF Known
<1>13. ASSUME StartHeight
       PROVE  Known'
  <2>1. Whole'
    BY <1>13 DEF StartHeight, Whole
  <2> QED BY <1>4, <1>13, <2>1 DEF StartHeight, Known
<1>14. ASSUME UNCHANGED vars
       PROVE  Known'
  BY <1>4, <1>14 DEF vars, Known
<1> QED BY <1>5, <1>6, <1>7, <1>8, <1>9, <1>10, <1>11, <1>12, <1>13, <1>14 DEF Next

LEMMA KnownHolds == Spec => [](Typed /\ Known)
<1>1. Typed /\ Known /\ [Next]_vars => (Typed /\ Known)'
  BY TypedStep, KnownStep
<1>2. Init => Typed /\ Known
  BY TypedInit, KnownInit
<1> QED BY <1>1, <1>2, PTL DEF Spec

-----------------------------------------------------------------------------
(* The properties.                                                         *)

\* Every sensor's format, size, rate and reported format are ones of its tables,
\* whatever the clients ask for and however their calls overlap.
THEOREM FormatsTypeCorrect == Spec => []TypeOK
<1>1. Typed => TypeOK
  BY DEF Typed, TypeOK, FmtTyped, ResTyped, RateTyped, ReportTyped, HistoryTyped
<1> QED BY <1>1, TypedHolds, PTL

\* A start during which no client sets a format programs what get_fmt reports,
\* unless the last format was only tried.
THEOREM StartAsReported == Spec => []StartMatchesReport
<1>1. ASSUME Typed, Known
      PROVE  StartMatchesReport
  <2> SUFFICES ASSUME NEW p \in start, p.next = "height", p.whole, inst.own \notin tried
               PROVE  reported[inst.own] =
                        [code |-> p.code, width |-> p.width, height |-> Height]
    BY DEF StartMatchesReport
  <2>1. inst.own \in Sensor
    BY FormatsAssumption, <1>1 DEF Typed
  <2>2. /\ ~SettingFormat(inst.own)
        /\ p.code = Formats(inst.own)[fmt[inst.own]].code
        /\ p.width = Size(inst.own, res[inst.own]).width
    BY <1>1 DEF Known, Whole
  <2>3. reported[inst.own] =
          Report(Formats(inst.own)[fmt[inst.own]].code, Size(inst.own, res[inst.own]))
    BY <1>1, <2>1, <2>2 DEF Known, Current
  <2> QED BY <2>2, <2>3 DEF Report, Height
<1> QED BY <1>1, KnownHolds, PTL

\* If the format was set and then the interval, and no other call disturbed
\* them, the rate a start programs is enumerated with the format and size.
THEOREM StartRateEnumerated == Spec => []StartRateOffered
<1>1. ASSUME Typed, Known
      PROVE  StartRateOffered
  <2> SUFFICES ASSUME NEW p \in start, p.next = "height", p.whole, p.fresh
               PROVE  p.rate \in EnumRates(inst.own, p.code, p.width, Height)
    BY DEF StartRateOffered
  <2>1. inst \in Instance /\ inst.own \in Sensor
    BY FormatsAssumption, <1>1 DEF Typed
  <2>2. PICK s : s = inst.own
    OBVIOUS
  <2>3. PICK f : f = res[s][1]
    OBVIOUS
  <2>4. PICK k : k = res[s][2]
    OBVIOUS
  <2>5. /\ ~SettingFormat(s)
        /\ p.code = Formats(s)[fmt[s]].code
        /\ p.rate \in Elements(Size(s, res[s]).rates)
        /\ p.width = Size(s, res[s]).width
    BY <1>1, <2>2 DEF Known, Whole
  <2>6. fmt[s] = f /\ Find(s, p.code) = f
    BY <1>1, <2>1, <2>2, <2>3, <2>5 DEF Known, Current
  <2>7. PICK z : z = Formats(s)[f].sizes
    OBVIOUS
  <2>8. /\ f \in 1..Len(Formats(s)) /\ k \in 1..Len(z)
        /\ Size(s, res[s]) = z[k] /\ z \in Table
    <3>1. res[s] \in Sizes(s)
      BY <1>1, <2>1, <2>2 DEF Typed, ResTyped
    <3>2. res[s] = <<f, k>> /\ f \in 1..Len(Formats(s)) /\ k \in 1..Len(z)
      BY <2>1, <2>2, <2>3, <2>4, <2>7, <3>1, SizesAre
    <3> QED BY <2>1, <2>2, <2>7, <3>2, FormatsAre, SizesAre
  <2>9. p.code \in EnumCodes(s)
    BY <2>5, <2>6, <2>8 DEF EnumCodes, Elements
  <2> DEFINE same == {i \in 1..Len(z) : z[i].width = p.width /\ z[i].height = Height}
  <2>10. same = {k}
    <3>1. k \in same
      BY <2>2, <2>5, <2>8 DEF Height
    <3>2. ASSUME NEW i \in same
          PROVE  i = k
      <4>1. i \in 1..Len(z) /\ Area(z[i]) = Area(z[k])
        BY <3>1 DEF Area
      <4> QED BY <2>8, <4>1 DEF Table
    <3> HIDE DEF same
    <3> QED BY <3>1, <3>2
  <2>11. First(same) = k
    BY <2>8, <2>10 DEF First
  <2> HIDE DEF same
  <2>12. EnumRates(s, p.code, p.width, Height) = Elements(z[k].rates)
    <3>1. EnumRates(s, p.code, p.width, Height) =
            IF p.code \in EnumCodes(s) /\ same # {} THEN Elements(z[First(same)].rates) ELSE {}
      BY <2>6, <2>7 DEF EnumRates, same
    <3> QED BY <2>9, <2>10, <2>11, <3>1
  <2> QED BY <2>2, <2>5, <2>8, <2>12
<1> QED BY <1>1, KnownHolds, PTL

\* Asked for an offered code, set_fmt keeps it, grants the nearest of all sizes
\* offered with it, and a size that is offered to the letter.
THEOREM FormatsGranted == Spec => FormatHonoured
<1> DEFINE A == \A a \in asked : asked' = {} /\ a.ask.code \in EnumCodes(a.sensor) =>
       LET s == a.sensor
           size == Size(s, res'[s])
       IN /\ Formats(s)[fmt'[s]].code = a.ask.code
          /\ \A z \in EnumSizes(s, a.ask.code) :
               /\ Distance(a.ask, size) <= Distance(a.ask, z)
               /\ z.width = a.ask.width /\ z.height = a.ask.height => size = z
<1>1. ASSUME Typed, Known, [Next]_vars
      PROVE  A
  <2> SUFFICES ASSUME NEW a \in asked, asked' = {}, a.ask.code \in EnumCodes(a.sensor)
               PROVE  LET s == a.sensor
                          size == Size(s, res'[s])
                      IN /\ Formats(s)[fmt'[s]].code = a.ask.code
                         /\ \A z \in EnumSizes(s, a.ask.code) :
                              /\ Distance(a.ask, size) <= Distance(a.ask, z)
                              /\ z.width = a.ask.width /\ z.height = a.ask.height => size = z
    OBVIOUS
  <2>1. SetFmtEnd
    BY <1>1 DEF vars, Next, SetFmtBegin, IntervalBegin, Improve, IntervalEnd,
      StartFormat, StartRate, StartWidth, StartHeight
  <2>2. PICK s : s = a.sensor
    OBVIOUS
  <2>3. PICK f : f = Find(s, a.ask.code)
    OBVIOUS
  <2>4. s \in Sensor /\ inst \in Instance
        /\ a.ask \in [try : BOOLEAN, code : STRING, width : Nat, height : Nat]
    BY <1>1, <2>2 DEF Typed, AskedTyped
  <2>5. Nearer(a) = {} /\ fmt'[s] = f /\ res' = res
    BY <1>1, <2>1, <2>2, <2>3, <2>4 DEF SetFmtEnd, Typed, FmtTyped, AskedTyped, Single
  <2>6. PICK sizes : sizes = Offered(a)
    OBVIOUS
  <2>7. /\ a.best \in 1..Len(sizes)
        /\ Size(s, res[s]) = sizes[a.best]
        /\ \A j \in 1..Len(sizes) :
             Distance(a.ask, sizes[a.best]) <= Distance(a.ask, sizes[j])
        /\ sizes \in Table
    BY <1>1, <2>2, <2>5, <2>6, SearchEnd, SearchIs DEF Known
  <2>8. Formats(s)[f].code = a.ask.code
    BY <2>2, <2>3, <2>4, FindIs
  <2>9. EnumSizes(s, a.ask.code) = Elements(sizes)
    BY <2>2, <2>6 DEF EnumSizes, Offered
  <2>10. ASSUME NEW j \in 1..Len(sizes),
                sizes[j].width = a.ask.width, sizes[j].height = a.ask.height
         PROVE  sizes[a.best] = sizes[j]
    <3>1. sizes[j] \in Resolution /\ sizes[a.best] \in Resolution
      BY <2>7, ElementOfSeq DEF Table
    <3>2. a.ask.width * a.ask.height = Area(sizes[j])
      BY <2>10 DEF Area
    <3>3. Distance(a.ask, sizes[j]) = 0 /\ Distance(a.ask, sizes[a.best]) = 0
      <4>1. Distance(a.ask, sizes[j]) = 0
        BY <2>4, <3>1, <3>2, DistanceTyped
      <4>2. Distance(a.ask, sizes[a.best]) \in Nat
        BY <2>4, <3>1, DistanceTyped
      <4>3. Distance(a.ask, sizes[a.best]) <= Distance(a.ask, sizes[j])
        BY <2>7
      <4> QED BY <4>1, <4>2, <4>3
    <3>4. Area(sizes[a.best]) = Area(sizes[j])
      BY <2>4, <3>1, <3>2, <3>3, DistanceTyped
    <3> QED BY <2>7, <3>4 DEF Table
  <2> QED BY <2>2, <2>5, <2>7, <2>8, <2>9, <2>10 DEF Elements
<1>2. Typed /\ Known /\ [Next]_vars => [A]_vars
  BY <1>1
<1> QED BY <1>2, KnownHolds, PTL DEF Spec, FormatHonoured

\* s_frame_interval grants an offered rate: the least that is at least the one
\* asked for, or the highest; the rate asked for is below 2^16.
THEOREM RatesGranted == Spec => RateHonoured
<1> DEFINE A == \A t \in timing : timing' = {} /\ t.target < U16 =>
       LET offered == Elements(Size(t.sensor, t.res).rates)
           granted == rate'[t.sensor]
       IN /\ granted \in offered
          /\ \A r \in offered : r >= t.target => granted >= t.target /\ granted <= r
          /\ granted < t.target => \A r \in offered : r <= granted
<1>1. ASSUME Typed, [Next]_vars
      PROVE  A
  <2> SUFFICES ASSUME NEW t \in timing, timing' = {}, t.target < U16
               PROVE  LET offered == Elements(Size(t.sensor, t.res).rates)
                          granted == rate'[t.sensor]
                      IN /\ granted \in offered
                         /\ \A r \in offered : r >= t.target =>
                              granted >= t.target /\ granted <= r
                         /\ granted < t.target => \A r \in offered : r <= granted
    OBVIOUS
  <2>1. IntervalEnd
    <3>1. ASSUME NEW node \in Node[inst], NEW q \in Request[inst], SetFmtBegin(node, q)
          PROVE  FALSE
      BY <3>1 DEF SetFmtBegin
    <3> QED BY <1>1, <3>1 DEF vars, Next, IntervalBegin, Improve, SetFmtEnd,
          StartFormat, StartRate, StartWidth, StartHeight
  <2>2. /\ inst \in Instance /\ t.sensor \in Sensor
        /\ t.res \in Sizes(t.sensor) /\ t.target \in Nat
    BY <1>1 DEF Typed, TimingTyped
  <2>3. t.target % U16 = t.target
    BY <2>2 DEF U16
  <2>4. rate'[t.sensor] = ProbeRate(Size(t.sensor, t.res).rates, t.target)
    <3>1. PICK u \in timing :
            rate' = [rate EXCEPT ![u.sensor] =
                       ProbeRate(Size(u.sensor, u.res).rates, u.target % U16)]
      BY <2>1 DEF IntervalEnd
    <3>2. u = t
      BY <1>1 DEF Typed, TimingTyped, Single
    <3> QED BY <1>1, <2>2, <2>3, <3>1, <3>2 DEF Typed, RateTyped
  <2>5. Size(t.sensor, t.res).rates \in Rates
    BY <2>2, SizesAre DEF Resolution
  <2> QED BY <2>2, <2>4, <2>5, ProbeRateIs
<1>2. Typed /\ [Next]_vars => [A]_vars
  BY <1>1
<1> QED BY <1>2, TypedHolds, PTL DEF Spec, RateHonoured
=============================================================================
