-------------------------- MODULE MCGoldfishBoard --------------------------
(* Boards with the kinds of devices android_arm_init_ adds: the controller *)
(* (fixed base, no line), the bus (both fixed), the RTC and optionally a   *)
(* second serial port (both allocated), audio (fixed base, allocated       *)
(* line), the battery and the events device (both allocated).  Addresses   *)
(* are in pages.  A ring of eight words holds two events and wraps after   *)
(* the third; three changes of each kind of power property can fall around *)
(* a status read.                                                          *)
EXTENDS GoldfishBoard
MCDevices == {"int", "bus", "rtc", "tty", "audio", "battery", "events"}
MCBoards ==
    {<<"int", "bus", "rtc", "audio", "battery", "events">>,
     <<"int", "bus", "rtc", "tty", "audio", "battery", "events">>}
MCWantBase == [d \in MCDevices |->
    CASE d = "int" -> 1 [] d = "bus" -> 2 [] d = "audio" -> 3 [] OTHER -> 0]
MCSize == [d \in MCDevices |-> 1]
MCWantIrq == [d \in MCDevices |-> IF d = "bus" THEN 1 ELSE 0]
MCIrqCount == [d \in MCDevices |-> IF d = "int" THEN 0 ELSE 1]
=============================================================================
