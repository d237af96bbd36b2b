-------------------------------- MODULE MCPim --------------------------------
(* The codecs' round trip and the Palm conflict handler.  They share no     *)
(* state: a behaviour is of one or of the other.  What the handler decides  *)
(* does not depend on earlier conflicts, so a pass has one.                 *)
EXTENDS RecordTrip, PalmConflict, TLC

AllBytes == [i \in 1..255 |-> i]

MCContents ==
  [datebook |->
     {[untimed |-> u, begin |-> 3, end |-> 4, alarm |-> al.on, advance |-> al.advance,
       units |-> al.units, repeatType |-> r.type, repeatFrequency |-> IF r.type = "none" THEN 0 ELSE 2,
       repeatDays |-> r.days, repeatWeekstart |-> r.start,
       repeatEnd |-> IF r.type = "none" THEN Forever ELSE until,
       exceptions |-> IF r.type = "none" THEN {} ELSE ex, rest |-> <<65, 147>>] :
        u \in {FALSE},
        al \in {[on |-> FALSE, advance |-> 0, units |-> 0], [on |-> TRUE, advance |-> 0, units |-> 0],
                [on |-> TRUE, advance |-> 60, units |-> 0], [on |-> TRUE, advance |-> 36, units |-> 1],
                [on |-> TRUE, advance |-> 5, units |-> 0]},
        r \in {[type |-> t, days |-> {}, start |-> 0] : t \in RepeatTypes}
              \cup {[type |-> "weekly", days |-> {0, 2, 6}, start |-> s] : s \in {0, 1}},
        until \in {Forever, 30}, ex \in {{}, {10}}}
     \cup
     {[untimed |-> TRUE, begin |-> 3, end |-> 3, alarm |-> FALSE, advance |-> 0, units |-> 0,
       repeatType |-> "none", repeatFrequency |-> 0, repeatDays |-> {}, repeatWeekstart |-> 0,
       repeatEnd |-> Forever,
       exceptions |-> {}, rest |-> AllBytes]},
   contact |->
     {[phone |-> [i \in Slots |-> IF i \in full THEN n[i + 1] ELSE NoText],
       phoneLabel |-> [i \in Slots |-> l[i + 1]], showPhone |-> show, rest |-> rest] :
        full \in {{}, {0}, {0, 1}, {0, 3}, {1, 2}, {0, 1, 2, 3, 4}},
        n \in {<<"a", "b", "c", "d", "e">>}, l \in {<<0, 1, 2, 3, 4>>, <<7, 7, 2, 0, 5>>},
        show \in {0, 3}, rest \in {<<65>>, AllBytes}},
   todo |->
     {[indefinite |-> i, due |-> IF i THEN NoDate ELSE d, priority |-> p, complete |-> c,
       rest |-> rest] :
        i \in BOOLEAN, d \in {NoDate, 5}, p \in {1, 5}, c \in BOOLEAN,
        rest \in {<<65>>, AllBytes}}]

(* An alarm that fills no larger unit, one that fills a day; an all-day    *)
(* event over days; exceptions without a repetition, and with one that the *)
(* Palm has not; characters that it has not; more numbers than slots, and  *)
(* none; priorities below 1 and above 5.                                   *)
MCDesktop ==
  [datebook |->
     {[allDay |-> all, begin |-> 3, end |-> 5, alarm |-> [set |-> before > 0, before |-> before],
       rule |-> rule, exDates |-> {4}, rest |-> <<8364, 9731>>] :
        all \in BOOLEAN, before \in {0, 5400, 86400},
        rule \in {NoRule, [type |-> "weekly", frequency |-> 1, days |-> {1, 6}, monthDays |-> {},
                           until |-> Forever],
                  [type |-> "monthly", frequency |-> 2, days |-> {}, monthDays |-> {},
                   until |-> 30],
                  [type |-> "other", frequency |-> 3, days |-> {}, monthDays |-> {},
                   until |-> 30]}},
   contact |->
     {[numbers |-> SubSeq(<<"a", "b", "c", "d", "e", "f">>, 1, n),
       label |-> [i \in Slots |-> IF i < n /\ i # 1 THEN "Fax" ELSE NoText],
       showPhone |-> 4, rest |-> <<8364, 9731>>] : n \in {0, 2, 6}},
   todo |->
     {[due |-> due, priority |-> p, complete |-> c, rest |-> <<8364, 9731>>] :
        due \in {NoDate, 5}, p \in {0, 9}, c \in BOOLEAN}]

NoTrip == /\ kind = "none" /\ device = [id \in RecordIds |-> NoRecord] /\ item = NoItem
          /\ link = FALSE /\ origin = NoRecord /\ settled = {} /\ lost = FALSE /\ edits = 0

PimInit == (TripInit /\ ConflictInit) \/ (NoTrip /\ ConflictInit)
PimNext ==
  \/ kind # "none" /\ TripNext /\ UNCHANGED <<ruling, deferred>>
  \/ /\ kind = "none" /\ UNCHANGED tripVars
     /\ \/ /\ ruling = NoRuling
           /\ \E c \in Conflicts, p \in ConflictPolicies : PalmHandleConflict(c, p)
        \/ OnSyncStart
PimSpec == PimInit /\ [][PimNext]_<<tripVars, ruling, deferred>>
=============================================================================
