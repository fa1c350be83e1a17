------------------------------- MODULE Ds18b20 -------------------------------
(***************************************************************************)
(* The thermometers on the 1-Wire bus, of Lua/sensor.c: conversions are    *)
(* requested from all of them at once, take the longer the higher the      *)
(* resolution, and put their result into the scratchpad of each, which     *)
(* answers with what it has at any time.  While they convert, sensors that *)
(* have a power line answer 0 to a read of the bus; with parasite power    *)
(* nobody may use the bus, which is their supply, and the code waits for   *)
(* the time the resolution takes.                                          *)
(*                                                                         *)
(* The sensors have been found (module OneWire).  A reset of the bus that  *)
(* nobody answers is the fault: the sensors are all there or none is.      *)
(***************************************************************************)
EXTENDS Naturals

CONSTANTS
  Sensors,
  Fixed         \* those with DS18S20_FAMILY_CODE: one resolution only

None == "none"

(* What is assumed of the constants.                                       *)
Constants == Fixed \subseteq Sensors /\ None \notin Sensors

(* Resolutions, by the time a conversion takes: _set_measure_time.         *)
Short == 1
Long == 2
Times == {Short, Long}

VARIABLES
  \* the sensors
  parasite,                 \* one of them has no power line
  resolution,               \* of each
  converting,               \* those that convert
  age,                      \* time since they began, up to Long
  answering,                \* reads of the bus show whether they convert
  \* sensor.c
  ds_parasite_pwr,
  ds_measure_time,
  ds_start_measure_time,    \* the time since then, up to Long
  waiting,                  \* ds_gettemp waits, for a sensor
  tmo,                      \* and since when
  \* history
  fresh,                    \* sensors that have converted since a request
  requested,                \* there was a request
  disturbed,                \* it was not answered, or the bus was used
                            \* while they converted, or not for long enough
  stale                     \* a temperature older than it was given for good

bus == <<parasite, resolution, converting, age, answering>>
setting == <<ds_parasite_pwr, ds_measure_time, ds_start_measure_time>>
wait == <<waiting, tmo>>
history == <<fresh, requested, disturbed, stale>>
vars == <<bus, setting, wait, history>>

Init ==
  /\ parasite = FALSE
  /\ resolution = [d \in Sensors |-> Long]
  /\ converting = {} /\ age = Long /\ answering = FALSE
  /\ ds_parasite_pwr = FALSE
  /\ ds_measure_time = Long
  /\ ds_start_measure_time = Long
  /\ waiting = None /\ tmo = 0
  /\ fresh = {} /\ requested = FALSE /\ disturbed = FALSE /\ stale = FALSE

(* ow_init of a pin with other hardware.  Of the same pin, it is a use of  *)
(* the bus like Search.                                                    *)
OwInit ==
  /\ waiting = None
  /\ parasite' \in BOOLEAN
  /\ resolution' \in [Sensors -> Times]
  /\ \A d \in Fixed : resolution'[d] = Long
  /\ converting' = {} /\ answering' = FALSE
  /\ fresh' = {} /\ requested' = FALSE /\ disturbed' = FALSE /\ stale' = FALSE
  /\ UNCHANGED <<age, setting, wait>>

(* A reset of the bus: the sensors wait for a command, and do not get the  *)
(* power that a conversion takes.                                          *)
Reset ==
  /\ answering' = FALSE
  /\ converting' = IF parasite THEN {} ELSE converting

MutantStartAll(answers) ==
  /\ requested' = TRUE
  /\ fresh' = {}
  /\ stale' = FALSE
  /\ ds_parasite_pwr' = IF answers = 0 THEN ds_parasite_pwr ELSE parasite
  /\ UNCHANGED ds_start_measure_time
  /\ IF answers < 2
       THEN Reset /\ disturbed' = TRUE /\ UNCHANGED age
       ELSE /\ converting' = Sensors /\ age' = 0 /\ answering' = TRUE
            /\ disturbed' = FALSE

(* TM_DS18B20_StartAll, when neither, one or both resets are answered.     *)
StartAll(answers) ==
  /\ requested' = TRUE
  /\ fresh' = {}
  /\ stale' = FALSE
  /\ ds_parasite_pwr' = IF answers = 0 THEN ds_parasite_pwr ELSE parasite
  /\ IF answers < 2
       THEN Reset /\ disturbed' = TRUE
              /\ UNCHANGED <<age, ds_start_measure_time>>
       ELSE /\ converting' = Sensors /\ age' = 0 /\ answering' = TRUE
            /\ disturbed' = FALSE
            /\ ds_start_measure_time' = IF parasite THEN 0
                                        ELSE ds_start_measure_time

(* ds_startm *)
Startm(answers) ==
  /\ waiting = None
  /\ StartAll(answers)
  /\ UNCHANGED <<parasite, resolution, ds_measure_time, wait>>

(* What a read of the bus shows.  Who has no power line cannot tell, and   *)
(* nobody knows what is read.                                              *)
ReadBit ==
  IF ~ answering \/ converting = {} THEN {1}
  ELSE IF parasite THEN {0, 1} ELSE {0}

(* TM_DS18B20_Read, which begins with ReadBit: the bus is used, too early  *)
(* if a sensor takes longer than the code has waited for.                  *)
Read(d, ok) ==
  /\ ok => 1 \in ReadBit
  /\ Reset
  /\ disturbed' = (disturbed \/ \E c \in converting :
                                  resolution[c] > ds_measure_time)
  /\ stale' = (stale \/ (ok /\ requested /\ d \notin fresh))
  /\ UNCHANGED <<parasite, resolution, age, ds_parasite_pwr, ds_measure_time,
                 fresh, requested>>

(* ds_get finds that the measurement is finished.                          *)
Ready ==
  IF ds_parasite_pwr THEN ds_start_measure_time >= ds_measure_time
                     ELSE 1 \in ReadBit

(* ds_start_measure_time = 0, after which it is long ago.                  *)
Release ==
  ds_start_measure_time' = IF ds_parasite_pwr THEN Long
                                              ELSE ds_start_measure_time

(* ds_get.  Not ready, it changes nothing.  What is read is not ok if      *)
(* nobody answers or it is damaged.                                        *)
Get(d, ok) ==
  /\ waiting = None
  /\ Ready
  /\ Release
  /\ Read(d, ok)
  /\ UNCHANGED wait

(* TM_DS18B20_GetResolution: what is read has no check sum, and an error   *)
(* is taken for a resolution.  A DS18S20 is not asked.                     *)
Resolutions(d) == IF d \in Fixed THEN {Long} ELSE Times

(* ds_gettemp, up to its loop.                                             *)
Gettemp(d, answers) ==
  /\ waiting = None
  /\ ds_measure_time' \in Resolutions(d)
  /\ StartAll(answers)
  /\ waiting' = d /\ tmo' = 0
  /\ UNCHANGED <<parasite, resolution>>

(* The loop ends: the time is over, or the sensors say that they are done. *)
Waited(ok) ==
  /\ waiting # None
  /\ IF ds_parasite_pwr THEN tmo >= ds_measure_time
                        ELSE tmo < ds_measure_time /\ 1 \in ReadBit
  /\ Release
  /\ Read(waiting, ok)
  /\ waiting' = None /\ tmo' = 0

(* owError_NotReady                                                        *)
TimedOut ==
  /\ waiting # None
  /\ ~ ds_parasite_pwr
  /\ tmo >= ds_measure_time
  /\ waiting' = None /\ tmo' = 0
  /\ UNCHANGED <<bus, setting, history>>

(* The bus is used for something else.                                     *)
Use ==
  /\ Reset
  /\ disturbed' = (disturbed \/ converting # {})
  /\ UNCHANGED <<age, fresh, requested, stale>>

(* ow_search, ds_search                                                    *)
Search ==
  /\ waiting = None
  /\ Use
  /\ UNCHANGED <<parasite, resolution, setting, wait>>

(* ds_getres: a DS18S20 is not asked.                                      *)
Getres(d) ==
  /\ waiting = None
  /\ ds_measure_time' \in Resolutions(d)
  /\ IF d \in Fixed THEN UNCHANGED <<converting, age, answering, history>>
                    ELSE Use
  /\ UNCHANGED <<parasite, resolution, ds_parasite_pwr,
                 ds_start_measure_time, wait>>

(* ds_setres.  When it fails the resolution may have been set or not, and  *)
(* the time is that of the new one all the same.                           *)
Setres(d, new) ==
  /\ waiting = None
  /\ d \notin Fixed
  /\ Use
  /\ \/ /\ resolution' = [resolution EXCEPT ![d] = new]
        /\ ds_measure_time' \in Resolutions(d)
     \/ /\ ds_measure_time' = new
        /\ UNCHANGED resolution
  /\ UNCHANGED <<parasite, ds_parasite_pwr, ds_start_measure_time, wait>>

(* The same of a DS18S20, which has one resolution.                        *)
SetresFixed(d) ==
  /\ waiting = None
  /\ d \in Fixed
  /\ ds_measure_time' = Long
  /\ UNCHANGED <<bus, ds_parasite_pwr, ds_start_measure_time, wait, history>>

(* A conversion ends, and puts its result into the scratchpad.             *)
Converted(d) ==
  /\ d \in converting
  /\ converting' = converting \ {d}
  /\ fresh' = fresh \union {d}
  /\ UNCHANGED <<parasite, resolution, age, answering, setting, wait,
                 requested, disturbed, stale>>

Later(time) == IF time < Long THEN time + 1 ELSE Long

(* Time passes.  No conversion takes longer than its resolution does.      *)
Tick ==
  /\ \A d \in converting : age + 1 < resolution[d]
  /\ age' = Later(age)
  /\ ds_start_measure_time' = Later(ds_start_measure_time)
  /\ tmo' = IF waiting = None THEN 0 ELSE Later(tmo)
  /\ UNCHANGED <<parasite, resolution, converting, answering,
                 ds_parasite_pwr, ds_measure_time, waiting, history>>

Next ==
  \/ OwInit \/ Search \/ TimedOut \/ Tick
  \/ \E answers \in 0 .. 2 :
       Startm(answers) \/ \E d \in Sensors : Gettemp(d, answers)
  \/ \E ok \in BOOLEAN : Waited(ok) \/ \E d \in Sensors : Get(d, ok)
  \/ \E d \in Sensors :
       \/ Getres(d) \/ SetresFixed(d) \/ Converted(d)
       \/ \E new \in Times : Setres(d, new)

Spec == Init /\ [][Next]_vars

TypeOK ==
  /\ parasite \in BOOLEAN /\ resolution \in [Sensors -> Times]
  /\ converting \subseteq Sensors /\ age \in 0 .. Long /\ answering \in BOOLEAN
  /\ ds_parasite_pwr \in BOOLEAN
  /\ ds_measure_time \in Times /\ ds_start_measure_time \in 0 .. Long
  /\ waiting \in Sensors \union {None} /\ tmo \in 0 .. Long
  /\ fresh \subseteq Sensors
  /\ requested \in BOOLEAN /\ disturbed \in BOOLEAN /\ stale \in BOOLEAN

(* A temperature is one that was measured after the last request for one,  *)
(* unless the request found nobody on the bus, the bus was used while the  *)
(* sensors converted, or ds_measure_time was that of a faster sensor.      *)
NoStaleTemperature == stale => disturbed
=============================================================================
