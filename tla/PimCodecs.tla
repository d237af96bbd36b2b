------------------------------ MODULE PimCodecs ------------------------------
(***************************************************************************)
(* The codecs between a Palm record's content and the PIM types of the     *)
(* desktop: text (palmtext), contacts (contactcodec, kde_pim_convert),     *)
(* to-dos (todocodec, kde_pim_convert) and appointments (datebookcodec).   *)
(*                                                                         *)
(* What a codec copies from a field to its counterpart (names, address,    *)
(* note, custom fields) is one payload of text, rest.                      *)
(* pilot-link's pack and unpack and the KDE types are external.            *)
(***************************************************************************)
EXTENDS Integers, Sequences, FiniteSets

-----------------------------------------------------------------------------
(* Text: Windows-1252 on the device, UTF-16 on the desktop.                *)

Cp1252ToUnicode ==
  << 8364,  129, 8218,  402, 8222, 8230, 8224, 8225,
      710, 8240,  352, 8249,  338,  141,  381,  143,
      144, 8216, 8217, 8220, 8221, 8226, 8211, 8212,
      732, 8482,  353, 8250,  339,  157,  382,  376 >>

QuestionMark == 63
Bytes == 0..255

CharOf(byte) == IF byte \in 128..159 THEN Cp1252ToUnicode[byte - 127] ELSE byte

DecodePalmText(bytes) == [i \in DOMAIN bytes |-> CharOf(bytes[i])]

(* Without the table the control range would pass as Latin-1.              *)
EncodePalmText_Latin1(chars) ==
  [i \in DOMAIN chars |-> IF chars[i] < 256 THEN chars[i] ELSE QuestionMark]

InTable(char) == {k \in 1..32 : Cp1252ToUnicode[k] = char}

ByteOf(char) ==
  CASE char < 128 \/ char \in 160..255 -> char
    [] InTable(char) # {} -> 127 + CHOOSE k \in InTable(char) : \A j \in InTable(char) : k <= j
    [] OTHER -> QuestionMark

EncodePalmText(chars) == [i \in DOMAIN chars |-> ByteOf(chars[i])]

-----------------------------------------------------------------------------
(* Contacts.  Five phone slots, a slot may be empty.                       *)

Slots == 0..4
NoText == ""
DefaultPhoneLabels ==
  <<"Work", "Home", "Fax", "Other", "E-mail", "Main", "Pager", "Mobile">>
OtherLabel == 3

LabelNames == {DefaultPhoneLabels[i + 1] : i \in 0..7}

LabelStringToIndex(label) ==
  IF \E i \in 0..7 : DefaultPhoneLabels[i + 1] = label
  THEN CHOOSE i \in 0..7 : DefaultPhoneLabels[i + 1] = label
  ELSE OtherLabel

(* In ascending order: the slot at place k has k - 1 full slots below it.  *)
FullSlots(phone) ==
  LET full == {i \in Slots : phone[i] # NoText}
  IN  [k \in 1..Cardinality(full) |->
         CHOOSE i \in full : Cardinality({j \in full : j < i}) = k - 1]

(* What a Palm holds, as pilot-link unpacks it.                            *)
Addresses == [phone : [Slots -> {NoText} \cup STRING], phoneLabel : [Slots -> 0..7],
              showPhone : Slots, rest : Seq(Bytes)]

(* What the desktop holds: any list of numbers, none of them empty, and    *)
(* the labels stashed for the places in it.                                *)
AnyAddressees ==
  {a \in [numbers : Seq({NoText} \cup STRING), label : [Slots -> LabelNames \cup {NoText}],
          showPhone : Slots, rest : Seq(Nat)] :
     \A k \in 1..Len(a.numbers) : a.numbers[k] # NoText}

Addressees ==
  {a \in AnyAddressees : \A i \in Slots : a.label[i] # NoText => i < Len(a.numbers)}

(* One label per slot that is not empty, in their order.                   *)
DecodeContact(addr) ==
  LET full == FullSlots(addr.phone)
      Label(i) == DefaultPhoneLabels[1 + IF addr.phoneLabel[i] \in 0..7 THEN addr.phoneLabel[i]
                                         ELSE OtherLabel]
  IN  [phone |-> addr.phone,
       phoneLabels |-> [k \in DOMAIN full |-> Label(full[k])],
       showPhone |-> addr.showPhone, rest |-> DecodePalmText(addr.rest)]

(* Labels are taken by slot; a slot beyond the list gets its own number.   *)
EncodeContact(c) ==
  [phone |-> c.phone,
   phoneLabel |-> [i \in Slots |-> IF i < Len(c.phoneLabels)
                                   THEN LabelStringToIndex(c.phoneLabels[i + 1]) ELSE i],
   showPhone |-> c.showPhone, rest |-> EncodePalmText(c.rest)]

(* An Addressee has a list of numbers; what it has no field for goes into  *)
(* X-PALM-* custom fields: the label of each slot below the list's length, *)
(* the preferred slot.                                                     *)
ToAddressee(c) ==
  LET full == FullSlots(c.phone)
  IN  [numbers |-> [k \in DOMAIN full |-> c.phone[full[k]]],
       label |-> [i \in Slots |-> IF c.phone[i] # NoText /\ i < Len(c.phoneLabels)
                                  THEN c.phoneLabels[i + 1] ELSE NoText],
       showPhone |-> c.showPhone, rest |-> c.rest]

FromAddressee(a) ==
  [phone |-> [i \in Slots |-> IF i < Len(a.numbers) THEN a.numbers[i + 1] ELSE NoText],
   phoneLabels |-> [k \in 1..5 |-> DefaultPhoneLabels[1 + LabelStringToIndex(a.label[k - 1])]],
   showPhone |-> a.showPhone, rest |-> a.rest]

-----------------------------------------------------------------------------
(* To-dos.  NoDate is an invalid date, on the device all zeros.            *)

NoDate == 0

Todos == {t \in [indefinite : BOOLEAN, due : Nat, priority : 1..5, complete : BOOLEAN,
                 rest : Seq(Bytes)] : t.indefinite => t.due = NoDate}

(* On the desktop 0 is no priority and 9 the least.                        *)
KTodos == [due : Nat, priority : 0..9, complete : BOOLEAN, rest : Seq(Nat)]

DecodeTodo(t) ==
  [t EXCEPT !.due = IF t.indefinite THEN NoDate ELSE @, !.rest = DecodePalmText(@)]
EncodeTodo(t) ==
  [t EXCEPT !.due = IF t.indefinite THEN NoDate ELSE @, !.rest = EncodePalmText(@)]

Bound(low, n, high) == IF n < low THEN low ELSE IF n > high THEN high ELSE n

ToKCalTodo(t) ==
  [due |-> IF t.indefinite THEN NoDate ELSE t.due,
   priority |-> Bound(1, t.priority, 5), complete |-> t.complete, rest |-> t.rest]

FromKCalTodo(k) ==
  [indefinite |-> k.due = NoDate, due |-> k.due,
   priority |-> Bound(1, k.priority, 5), complete |-> k.complete, rest |-> k.rest]

-----------------------------------------------------------------------------
(* Appointments.  Days are numbers; repeatDays are 0..6 for Sun..Sat on    *)
(* the device and for Mon..Sun in KCalendarCore.                           *)

NoAlarm == 0
NoRule == [type |-> "none"]
Forever == 0

RepeatTypes == {"none", "daily", "weekly", "monthlyByDay", "monthlyByDate", "yearly"}

(* Only a weekly one has days; what does not repeat has no repeat block,   *)
(* but it may have exceptions: those are packed on their own.              *)
Appointments ==
  {a \in [untimed : BOOLEAN, begin : Nat, end : Nat, alarm : BOOLEAN, advance : Nat, units : 0..2,
          repeatType : RepeatTypes, repeatFrequency : Nat, repeatDays : SUBSET (0..6),
          repeatWeekstart : 0..6, repeatEnd : Nat, exceptions : SUBSET Nat, rest : Seq(Bytes)] :
     /\ a.untimed => a.end = a.begin
     /\ a.repeatType # "weekly" => a.repeatDays = {}
     /\ IF a.repeatType = "none"
        THEN a.repeatFrequency = 0 /\ a.repeatWeekstart = 0 /\ a.repeatEnd = Forever
        ELSE a.repeatFrequency > 0}

(* "other" is what KCalendarCore has beside these: hourly rules and finer, *)
(* several rules, single dates alone.                                      *)
Rules == [type : {"daily", "weekly", "monthly", "yearly", "other"}, frequency : Nat \ {0},
          days : SUBSET (0..6), monthDays : SUBSET Nat, until : Nat]

(* What the desktop holds: alarms in whole minutes before the event.       *)
Events ==
  {e \in [allDay : BOOLEAN, begin : Nat, end : Nat, alarm : [set : BOOLEAN, before : Nat],
          rule : {NoRule} \cup Rules, exDates : SUBSET Nat, rest : Seq(Nat)] :
     e.alarm.set => e.alarm.before % 60 = 0}

UnitSeconds(units) ==
  CASE units = 0 -> 60 [] units = 1 -> 3600 [] units = 2 -> 86400 [] OTHER -> 60

(* The alarm's offset before the event, in seconds.                        *)
PalmAlarmToVAlarm(advance, units) == advance * UnitSeconds(units)

(* The largest unit that divides it; an alarm at the event itself is none. *)
VAlarmToPalmAlarm(seconds) ==
  IF seconds <= 0 THEN [alarm |-> FALSE, advance |-> 0, units |-> 0]
  ELSE LET units == CHOOSE u \in 0..2 : /\ u = 0 \/ seconds % UnitSeconds(u) = 0
                                        /\ \A v \in (u + 1)..2 : seconds % UnitSeconds(v) # 0
       IN  [alarm |-> TRUE, advance |-> seconds \div UnitSeconds(units), units |-> units]

PalmToKCalDays(days) == {(d + 6) % 7 : d \in days}
KCalToPalmDays_Same(days) == days
KCalToPalmDays(days) == {(d + 1) % 7 : d \in days}

(* repeatMonthlyByDay (the second Tuesday, say) keeps only its month.  The *)
(* week start is not read: the rule has KCalendarCore's, which is Monday.  *)
PalmRepeatToRRule(a) ==
  LET frequency == IF a.repeatFrequency = 0 THEN 1 ELSE a.repeatFrequency
      Rule(type, days, monthDays) ==
        [type |-> type, frequency |-> frequency, days |-> days, monthDays |-> monthDays,
         until |-> a.repeatEnd]
  IN  CASE a.repeatType = "daily"         -> Rule("daily", {}, {})
        [] a.repeatType = "weekly"        -> Rule("weekly", PalmToKCalDays(a.repeatDays), {})
        [] a.repeatType = "monthlyByDay"  -> Rule("monthly", {}, {})
        [] a.repeatType = "monthlyByDate" -> Rule("monthly", {}, {a.begin})
        [] a.repeatType = "yearly"        -> Rule("yearly", {}, {})
        [] OTHER                          -> NoRule

(* A rule of another type becomes repeatNone; the frequency and the end    *)
(* that are set beside it are not packed.  The week start is not set.      *)
RRuleToPalmRepeat(rule) ==
  IF rule.type \in {"none", "other"}
  THEN [repeatType |-> "none", repeatFrequency |-> 0, repeatDays |-> {}, repeatEnd |-> Forever]
  ELSE [repeatType |-> IF rule.type = "monthly" THEN "monthlyByDate" ELSE rule.type,
        repeatFrequency |-> rule.frequency,
        repeatDays |-> IF rule.type = "weekly" THEN KCalToPalmDays(rule.days) ELSE {},
        repeatEnd |-> rule.until]

(* Description and note pass as Latin-1.                                   *)
Latin1Of(char) == IF char < 256 THEN char ELSE QuestionMark
ToLatin1(chars) == [i \in DOMAIN chars |-> Latin1Of(chars[i])]

(* Both ends are copied; an all-day record ends when it begins.            *)
DecodeAppointment(a) ==
  [allDay |-> a.untimed, begin |-> a.begin, end |-> IF a.untimed THEN a.begin ELSE a.end,
   alarm |-> IF a.alarm THEN [set |-> TRUE, before |-> PalmAlarmToVAlarm(a.advance, a.units)]
             ELSE [set |-> FALSE, before |-> NoAlarm],
   rule |-> PalmRepeatToRRule(a), exDates |-> a.exceptions, rest |-> a.rest]

(* What recurs has its exceptions written, also when its rule was not.     *)
EncodeAppointment(e) ==
  LET alarm == IF e.alarm.set THEN VAlarmToPalmAlarm(e.alarm.before) ELSE VAlarmToPalmAlarm(0)
      repeat == RRuleToPalmRepeat(e.rule)
  IN  [untimed |-> e.allDay, begin |-> e.begin, end |-> IF e.allDay THEN e.begin ELSE e.end,
       alarm |-> alarm.alarm, advance |-> alarm.advance, units |-> alarm.units,
       repeatType |-> repeat.repeatType, repeatFrequency |-> repeat.repeatFrequency,
       repeatDays |-> repeat.repeatDays, repeatWeekstart |-> 0, repeatEnd |-> repeat.repeatEnd,
       exceptions |-> IF e.rule = NoRule THEN {} ELSE e.exDates, rest |-> ToLatin1(e.rest)]
=============================================================================
