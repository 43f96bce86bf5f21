------------------------------ MODULE MCFormats ------------------------------
(* All device types and sensors, one call at a time, with every size of the   *)
(* tables and sizes between them; calls overlap, and come through several     *)
(* nodes, on the RGB sensor of a D43X, and on the infrared sensor of a D40X,  *)
(* which has two codes and the calibration format.                            *)
EXTENDS D4xxFormats

Kind(d, s, f) == [dev |-> d, own |-> s, fw516 |-> f]

D43xRgb == Kind("D43X", "rgb", TRUE)
D40xIr == Kind("D40X", "ir", TRUE)

MCOverlapping == {D43xRgb, D40xIr}
MCInstance ==
  MCOverlapping \cup {Kind(d, s, TRUE) : d \in Device, s \in Sensor \ {"imu"}}
                \cup {Kind("unknown", "imu", f) : f \in BOOLEAN}

MCNode == [m \in Instance |-> CASE m = D43xRgb -> {Mux, "imu"}
                                [] OTHER -> {Mux}]

Ask(code, w, h) == [try |-> FALSE, code |-> code, width |-> w, height |-> h]
Try(code, w, h) == [Ask(code, w, h) EXCEPT !.try = TRUE]

Odd == {<<1, 1>>, <<720, 1280>>, <<1000, 100>>, <<700, 500>>, <<4096, 2160>>}

MCRequest ==
  [m \in Instance |->
    IF m = D43xRgb
      THEN {Ask("YUYV8", 640, 480), Try("YUYV8", 1280, 720)}
    ELSE IF m = D40xIr
      THEN {Ask("Y8", 848, 480), Ask("VYUY8", 424, 240), Ask("RGB888", 1288, 808)}
    ELSE LET formats == FormatsOf(m, m.own) IN
         UNION {{Ask(f.code, z.width, z.height) : z \in Elements(f.sizes)}
                  : f \in Elements(formats)}
         \cup {Ask(formats[1].code, z[1], z[2]) : z \in Odd}
         \cup {Ask("none", 700, 500)}]

MCInterval ==
  [m \in Instance |->
    IF m \in MCOverlapping THEN {<<1, 90>>}
    ELSE {<<1, 1>>, <<1, 15>>, <<2, 33>>, <<1, 30>>, <<1, 60>>, <<1, 90>>,
          <<1, 500>>, <<1, U16 + 20>>}]
=============================================================================
