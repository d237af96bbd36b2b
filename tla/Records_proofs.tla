---------------------------- MODULE Records_proofs ----------------------------
(***************************************************************************)
(* Records on their way between the device and the desktop, and the        *)
(* conflicts between them.  The codecs, for every text, appointment,       *)
(* contact and to-do: what they carry there and back.  A record over the   *)
(* rounds of its backend: that one which nobody edited keeps its meaning,  *)
(* and that the rounds settle.  The store of conflicts and the badge, for  *)
(* any number of conflicts and of review dialogs: their types, that no     *)
(* conflict is hidden from the user, and what becomes of decisions.  What  *)
(* the Palm conflict handler decides, for every conflict and policy.       *)
(***************************************************************************)
EXTENDS RecordTrip, Conflicts, PalmConflict, FiniteSetTheorems, TLAPS

-----------------------------------------------------------------------------
(* Text.                                                                   *)

LEMMA Elements ==
    ASSUME NEW T, NEW s \in Seq(T)
    PROVE  /\ DOMAIN s = 1..Len(s) /\ Len(s) \in Nat
           /\ \A i \in DOMAIN s : s[i] \in T
           /\ s = [i \in DOMAIN s |-> s[i]]
OBVIOUS

LEMMA IsSequence ==
    ASSUME NEW T, NEW n \in Nat, NEW f, DOMAIN f = 1..n, f = [i \in 1..n |-> f[i]],
           \A i \in 1..n : f[i] \in T
    PROVE  f \in Seq(T) /\ Len(f) = n
OBVIOUS

(* The table of the control range: numbers, none of them a character that  *)
(* passes as it is, each of them once.                                     *)
LEMMA TableTyped ==
    \A k \in 1..32 : Cp1252ToUnicode[k] \in Nat
BY DEF Cp1252ToUnicode

LEMMA TableApart ==
    ASSUME NEW k \in 1..32
    PROVE  /\ ~(Cp1252ToUnicode[k] < 128)
           /\ Cp1252ToUnicode[k] \notin 160..255
BY DEF Cp1252ToUnicode

LEMMA TableOnce ==
    \A j, k \in 1..32 : Cp1252ToUnicode[j] = Cp1252ToUnicode[k] => j = k
BY SMTT(60) DEF Cp1252ToUnicode

(* Where a character is in the table, it is there once.                    *)
LEMMA PlaceInTable ==
    ASSUME NEW k \in 1..32
    PROVE  InTable(Cp1252ToUnicode[k]) = {k}
<1>1. k \in InTable(Cp1252ToUnicode[k])
  BY DEF InTable
<1>2. ASSUME NEW j \in InTable(Cp1252ToUnicode[k])
      PROVE  j = k
  <2>1. j \in 1..32 /\ Cp1252ToUnicode[j] = Cp1252ToUnicode[k]
    BY DEF InTable
  <2> QED BY <2>1, TableOnce
<1> QED BY <1>1, <1>2

LEMMA ByteOfTable ==
    ASSUME NEW char \in Nat
    PROVE  /\ char < 128 \/ char \in 160..255 => ByteOf(char) = char
           /\ \A k \in 1..32 : Cp1252ToUnicode[k] = char => ByteOf(char) = 127 + k
           /\ ByteOf(char) \in Bytes
<1> DEFINE direct == char < 128 \/ char \in 160..255
<1>1. ASSUME direct
      PROVE  ByteOf(char) = char
  <2>1. ASSUME NEW k \in InTable(char)
        PROVE  FALSE
    <3>1. k \in 1..32 /\ Cp1252ToUnicode[k] = char
      BY DEF InTable
    <3>2. ~(char < 128) /\ char \notin 160..255
      BY <3>1, TableApart
    <3> QED BY <1>1, <3>2
  <2>2. InTable(char) = {}
    BY <2>1
  <2> QED BY <1>1, <2>2 DEF ByteOf
<1>2. ASSUME NEW k \in 1..32, Cp1252ToUnicode[k] = char
      PROVE  ~direct /\ ByteOf(char) = 127 + k
  <2>1. InTable(char) = {k}
    BY <1>2, PlaceInTable
  <2>2. ~direct
    <3>1. ~(char < 128) /\ char \notin 160..255
      BY <1>2, TableApart
    <3> QED BY <3>1
  <2>3. \A j \in {k} : k <= j
    OBVIOUS
  <2>4. (CHOOSE m \in InTable(char) : \A j \in InTable(char) : m <= j) \in {k}
    BY <2>1, <2>3
  <2>5. (CHOOSE m \in InTable(char) : \A j \in InTable(char) : m <= j) = k
    BY <2>4
  <2>6. ByteOf(char) = 127 + CHOOSE m \in InTable(char) : \A j \in InTable(char) : m <= j
    BY <2>1, <2>2 DEF ByteOf
  <2> QED BY <2>2, <2>5, <2>6
<1>3. ASSUME ~direct, InTable(char) = {}
      PROVE  ByteOf(char) = QuestionMark
  BY <1>3 DEF ByteOf
<1>4. ByteOf(char) \in Bytes
  <2>1. CASE direct
    BY <1>1, <2>1 DEF Bytes
  <2>2. CASE InTable(char) # {}
    <3>1. PICK k \in 1..32 : Cp1252ToUnicode[k] = char
      BY <2>2 DEF InTable
    <3>2. ByteOf(char) = 127 + k
      BY <1>2, <3>1
    <3> QED BY <3>2 DEF Bytes
  <2>3. CASE ~direct /\ InTable(char) = {}
    BY <1>3, <2>3 DEF Bytes, QuestionMark
  <2> QED BY <2>1, <2>2, <2>3
<1> QED BY <1>1, <1>2, <1>4

LEMMA CharRoundTrip ==
    ASSUME NEW byte \in Bytes
    PROVE  CharOf(byte) \in Nat /\ ByteOf(CharOf(byte)) = byte
<1>1. byte \in 0..255
  BY DEF Bytes
<1>2. CASE byte \in 128..159
  <2>1. byte - 127 \in 1..32 /\ 127 + (byte - 127) = byte
    BY <1>2
  <2>2. CharOf(byte) = Cp1252ToUnicode[byte - 127]
    BY <1>2 DEF CharOf
  <2>3. CharOf(byte) \in Nat
    BY <2>1, <2>2, TableTyped
  <2>4. ByteOf(CharOf(byte)) = 127 + (byte - 127)
    BY <2>1, <2>2, <2>3, ByteOfTable
  <2> QED BY <2>1, <2>3, <2>4
<1>3. CASE byte \notin 128..159
  <2>1. CharOf(byte) = byte
    BY <1>3 DEF CharOf
  <2>2. byte \in Nat /\ (byte < 128 \/ byte \in 160..255)
    BY <1>1, <1>3
  <2> QED BY <2>1, <2>2, ByteOfTable
<1> QED BY <1>2, <1>3

(* encodePalmText and decodePalmText: every text has bytes; and every byte *)
(* string comes back from the desktop byte by byte, those of the control   *)
(* range by the table.                                                     *)
THEOREM TextRoundTrip ==
    /\ \A chars \in Seq(Nat) : EncodePalmText(chars) \in Seq(Bytes)
    /\ \A bytes \in Seq(Bytes) : DecodePalmText(bytes) \in Seq(Nat)
    /\ \A bytes \in Seq(Bytes) : EncodePalmText(DecodePalmText(bytes)) = bytes
<1>1. ASSUME NEW chars \in Seq(Nat)
      PROVE  EncodePalmText(chars) \in Seq(Bytes)
  <2>1. DOMAIN chars = 1..Len(chars) /\ Len(chars) \in Nat
    BY Elements
  <2>2. ASSUME NEW i \in DOMAIN chars
        PROVE  ByteOf(chars[i]) \in Bytes
    <3>1. chars[i] \in Nat
      BY Elements
    <3> QED BY <3>1, ByteOfTable
  <2>3. EncodePalmText(chars) = [i \in DOMAIN chars |-> ByteOf(chars[i])]
    BY DEF EncodePalmText
  <2> QED BY <2>1, <2>2, <2>3
<1>2. ASSUME NEW bytes \in Seq(Bytes)
      PROVE  DecodePalmText(bytes) \in Seq(Nat)
  <2>1. \A i \in 1..Len(bytes) : CharOf(bytes[i]) \in Nat
    BY Elements, CharRoundTrip
  <2> QED BY <2>1, Elements DEF DecodePalmText
<1>3. ASSUME NEW bytes \in Seq(Bytes)
      PROVE  EncodePalmText(DecodePalmText(bytes)) = bytes
  <2>1. \A i \in DOMAIN bytes : bytes[i] \in Bytes
    BY Elements
  <2>2. \A i \in DOMAIN bytes : ByteOf(CharOf(bytes[i])) = bytes[i]
    BY <2>1, CharRoundTrip
  <2>3. DOMAIN DecodePalmText(bytes) = DOMAIN bytes
    BY DEF DecodePalmText
  <2>4. \A i \in DOMAIN bytes : DecodePalmText(bytes)[i] = CharOf(bytes[i])
    BY DEF DecodePalmText
  <2>5. EncodePalmText(DecodePalmText(bytes)) = [i \in DOMAIN bytes |-> bytes[i]]
    BY <2>2, <2>3, <2>4 DEF EncodePalmText
  <2> QED BY <2>5, Elements
<1> QED BY <1>1, <1>2, <1>3

LEMMA Latin1Text ==
    /\ \A chars \in Seq(Nat) : ToLatin1(chars) \in Seq(Bytes)
    /\ \A bytes \in Seq(Bytes) : ToLatin1(bytes) = bytes /\ bytes \in Seq(Nat)
<1>1. ASSUME NEW chars \in Seq(Nat)
      PROVE  ToLatin1(chars) \in Seq(Bytes)
  <2>1. ASSUME NEW char \in Nat
        PROVE  Latin1Of(char) \in Bytes
    BY DEF Latin1Of, Bytes, QuestionMark
  <2>2. \A i \in 1..Len(chars) : Latin1Of(chars[i]) \in Bytes
    BY <2>1, Elements
  <2> QED BY <2>2, Elements DEF ToLatin1
<1>2. ASSUME NEW bytes \in Seq(Bytes)
      PROVE  ToLatin1(bytes) = bytes /\ bytes \in Seq(Nat)
  <2>1. ASSUME NEW byte \in Bytes
        PROVE  Latin1Of(byte) = byte /\ byte \in Nat
    BY DEF Latin1Of, Bytes
  <2>2. \A i \in DOMAIN bytes : Latin1Of(bytes[i]) = bytes[i] /\ bytes[i] \in Nat
    BY <2>1, Elements
  <2>3. ToLatin1(bytes) = [i \in DOMAIN bytes |-> bytes[i]]
    BY <2>2 DEF ToLatin1
  <2>4. bytes \in Seq(Nat)
    BY <2>2, Elements
  <2> QED BY <2>3, <2>4, Elements
<1> QED BY <1>1, <1>2

-----------------------------------------------------------------------------
(* Appointments.                                                           *)

LEMMA DaysRoundTrip ==
    /\ \A days \in SUBSET (0..6) : PalmToKCalDays(days) \in SUBSET (0..6)
    /\ \A days \in SUBSET (0..6) : KCalToPalmDays(days) \in SUBSET (0..6)
    /\ \A days \in SUBSET (0..6) : KCalToPalmDays(PalmToKCalDays(days)) = days
    /\ \A days \in SUBSET (0..6) : PalmToKCalDays(KCalToPalmDays(days)) = days
<1>1. \A d \in 0..6 : (d + 6) % 7 \in 0..6 /\ (d + 1) % 7 \in 0..6
  OBVIOUS
<1>2. \A d \in 0..6 : (((d + 6) % 7) + 1) % 7 = d /\ (((d + 1) % 7) + 6) % 7 = d
  OBVIOUS
<1>3. ASSUME NEW days \in SUBSET (0..6)
      PROVE  PalmToKCalDays(days) \in SUBSET (0..6) /\ KCalToPalmDays(days) \in SUBSET (0..6)
  BY <1>1 DEF PalmToKCalDays, KCalToPalmDays
<1>4. ASSUME NEW days \in SUBSET (0..6)
      PROVE  KCalToPalmDays(PalmToKCalDays(days)) = days
  <2> DEFINE back == [e \in 0..6 |-> (((e + 6) % 7) + 1) % 7]
  <2>1. \A d : d \in KCalToPalmDays(PalmToKCalDays(days)) <=>
                  \E e \in days : d = back[e]
    BY DEF PalmToKCalDays, KCalToPalmDays
  <2>2. \A e \in days : back[e] = e
    BY <1>2
  <2> HIDE DEF back
  <2>3. ASSUME NEW d \in KCalToPalmDays(PalmToKCalDays(days))
        PROVE  d \in days
    <3>1. PICK e \in days : d = back[e]
      BY <2>1
    <3> QED BY <2>2, <3>1
  <2>4. ASSUME NEW d \in days
        PROVE  d \in KCalToPalmDays(PalmToKCalDays(days))
    <3>1. d = back[d]
      BY <2>2
    <3> QED BY <2>1, <3>1, Zenon
  <2> QED BY <2>3, <2>4
<1>5. ASSUME NEW days \in SUBSET (0..6)
      PROVE  PalmToKCalDays(KCalToPalmDays(days)) = days
  <2> DEFINE back == [e \in 0..6 |-> (((e + 1) % 7) + 6) % 7]
  <2>1. \A d : d \in PalmToKCalDays(KCalToPalmDays(days)) <=>
                  \E e \in days : d = back[e]
    BY DEF PalmToKCalDays, KCalToPalmDays
  <2>2. \A e \in days : back[e] = e
    BY <1>2
  <2> HIDE DEF back
  <2>3. ASSUME NEW d \in PalmToKCalDays(KCalToPalmDays(days))
        PROVE  d \in days
    <3>1. PICK e \in days : d = back[e]
      BY <2>1
    <3> QED BY <2>2, <3>1
  <2>4. ASSUME NEW d \in days
        PROVE  d \in PalmToKCalDays(KCalToPalmDays(days))
    <3>1. d = back[d]
      BY <2>2
    <3> QED BY <2>1, <3>1, Zenon
  <2> QED BY <2>3, <2>4
<1> QED BY <1>3, <1>4, <1>5

(* An alarm that is a whole number of minutes before is kept to the second,*)
(* in whichever unit, except the one at the event itself.                  *)
LEMMA AlarmRoundTrip ==
    ASSUME NEW n \in Nat
    PROVE  LET a == VAlarmToPalmAlarm(n * 60)
           IN  /\ a.alarm \in BOOLEAN /\ a.advance \in Nat /\ a.units \in 0..2
               /\ a.alarm <=> n > 0
               /\ a.alarm => PalmAlarmToVAlarm(a.advance, a.units) = n * 60
               /\ ~a.alarm => a = VAlarmToPalmAlarm(0)
<1> DEFINE s == n * 60
           Fits(u) == /\ u = 0 \/ s % UnitSeconds(u) = 0
                      /\ \A v \in (u + 1)..2 : s % UnitSeconds(v) # 0
           units == CHOOSE u \in 0..2 : Fits(u)
<1>0. s \in Nat /\ (s > 0 <=> n > 0) /\ s % 60 = 0
  OBVIOUS
<1>1. UnitSeconds(0) = 60 /\ UnitSeconds(1) = 3600 /\ UnitSeconds(2) = 86400
  BY DEF UnitSeconds
<1>2. CASE n = 0
  BY <1>2 DEF VAlarmToPalmAlarm
<1>3. CASE n > 0
  <2>1. units \in 0..2 /\ Fits(units)
    <3>1. CASE s % 86400 = 0
      <4>1. Fits(2)
        BY <1>1, <3>1
      <4> HIDE DEF Fits
      <4> QED BY <4>1
    <3>2. CASE s % 86400 # 0 /\ s % 3600 = 0
      <4>1. Fits(1)
        <5>1. \A v \in 2..2 : v = 2
          OBVIOUS
        <5> QED BY <1>1, <3>2, <5>1
      <4> HIDE DEF Fits
      <4> QED BY <4>1
    <3>3. CASE s % 86400 # 0 /\ s % 3600 # 0
      <4>1. Fits(0)
        <5>1. \A v \in 1..2 : v = 1 \/ v = 2
          OBVIOUS
        <5> QED BY <1>1, <3>3, <5>1
      <4> HIDE DEF Fits
      <4> QED BY <4>1
    <3> QED BY <3>1, <3>2, <3>3
  <2>2. VAlarmToPalmAlarm(s) =
          [alarm |-> TRUE, advance |-> s \div UnitSeconds(units), units |-> units]
    BY <1>0, <1>3 DEF VAlarmToPalmAlarm
  <2>3. s % UnitSeconds(units) = 0
    BY <1>0, <1>1, <2>1
  <2>4. (s \div UnitSeconds(units)) \in Nat
        /\ (s \div UnitSeconds(units)) * UnitSeconds(units) = s
    <3>1. units = 0 \/ units = 1 \/ units = 2
      BY <2>1
    <3> HIDE DEF s, units
    <3> QED BY <1>0, <1>1, <2>3, <3>1
  <2> HIDE DEF units, s, Fits
  <2>5. /\ VAlarmToPalmAlarm(s).alarm
        /\ VAlarmToPalmAlarm(s).advance = s \div UnitSeconds(units)
        /\ VAlarmToPalmAlarm(s).units = units
    BY <2>2
  <2>6. PalmAlarmToVAlarm(VAlarmToPalmAlarm(s).advance, VAlarmToPalmAlarm(s).units) = s
    BY <2>4, <2>5 DEF PalmAlarmToVAlarm
  <2>7. VAlarmToPalmAlarm(s).alarm \in BOOLEAN
    BY <2>2
  <2> QED BY <1>3, <2>1, <2>4, <2>5, <2>6, <2>7 DEF s
<1> QED BY <1>2, <1>3

(* Whole minutes.                                                          *)
LEMMA WholeMinutes ==
    /\ \A n \in Nat : (n * 60) % 60 = 0
    /\ \A s \in Nat : s % 60 = 0 => \E n \in Nat : s = n * 60
OBVIOUS

AppointmentRecords ==
    [untimed : BOOLEAN, begin : Nat, end : Nat, alarm : BOOLEAN, advance : Nat, units : 0..2,
     repeatType : RepeatTypes, repeatFrequency : Nat, repeatDays : SUBSET (0..6),
     repeatWeekstart : 0..6, repeatEnd : Nat, exceptions : SUBSET Nat, rest : Seq(Bytes)]

LEMMA RulesAre ==
    ASSUME NEW rule \in Rules
    PROVE  rule # NoRule /\ rule.type # "none"
<1>0. rule.type # "none"
  BY DEF Rules
<1>1. DOMAIN rule = {"type", "frequency", "days", "monthDays", "until"}
  BY DEF Rules
<1>2. DOMAIN NoRule = {"type"}
  BY DEF NoRule
<1> QED BY <1>0, <1>1, <1>2

LEMMA RepeatToRule ==
    ASSUME NEW a \in Appointments
    PROVE  LET rule == PalmRepeatToRRule(a)
           IN  /\ rule = NoRule <=> a.repeatType = "none"
               /\ a.repeatType # "none" =>
                     /\ rule \in Rules /\ rule.type # "other"
                     /\ rule.frequency = a.repeatFrequency /\ rule.until = a.repeatEnd
                     /\ rule.type = IF a.repeatType \in {"monthlyByDay", "monthlyByDate"}
                                    THEN "monthly" ELSE a.repeatType
                     /\ a.repeatType = "weekly" => rule.days = PalmToKCalDays(a.repeatDays)
<1> DEFINE rule == PalmRepeatToRRule(a)
<1>1. /\ a.repeatType \in RepeatTypes /\ a.repeatFrequency \in Nat
      /\ a.repeatDays \in SUBSET (0..6) /\ a.repeatEnd \in Nat /\ a.begin \in Nat
      /\ a.repeatType # "none" => a.repeatFrequency > 0
  BY DEF Appointments
<1>2. CASE a.repeatType = "none"
  BY <1>2 DEF PalmRepeatToRRule
<1>3. CASE a.repeatType # "none"
  <2> DEFINE type == IF a.repeatType \in {"monthlyByDay", "monthlyByDate"}
                     THEN "monthly" ELSE a.repeatType
  <2>1. PICK days \in SUBSET (0..6), monthDays \in SUBSET Nat :
          /\ rule = [type |-> type, frequency |-> a.repeatFrequency, days |-> days,
                     monthDays |-> monthDays, until |-> a.repeatEnd]
          /\ a.repeatType = "weekly" => days = PalmToKCalDays(a.repeatDays)
    <3>1. CASE a.repeatType = "weekly"
      <4>1. rule = [type |-> "weekly", frequency |-> a.repeatFrequency,
                    days |-> PalmToKCalDays(a.repeatDays), monthDays |-> {},
                    until |-> a.repeatEnd]
        BY <1>1, <3>1 DEF PalmRepeatToRRule
      <4>2. {} \in SUBSET Nat /\ PalmToKCalDays(a.repeatDays) \in SUBSET (0..6)
        BY <1>1, DaysRoundTrip
      <4> QED BY <3>1, <4>1, <4>2
    <3>2. CASE a.repeatType = "monthlyByDate"
      <4>1. rule = [type |-> "monthly", frequency |-> a.repeatFrequency, days |-> {},
                     monthDays |-> {a.begin}, until |-> a.repeatEnd]
        BY <1>1, <3>2 DEF PalmRepeatToRRule
      <4>2. {a.begin} \in SUBSET Nat /\ {} \in SUBSET (0..6)
        BY <1>1
      <4> QED BY <3>2, <4>1, <4>2
    <3>3. CASE a.repeatType \in {"daily", "monthlyByDay", "yearly"}
      <4>1. rule = [type |-> type, frequency |-> a.repeatFrequency, days |-> {},
                     monthDays |-> {}, until |-> a.repeatEnd]
        BY <1>1, <3>3 DEF PalmRepeatToRRule
      <4>2. {} \in SUBSET Nat /\ {} \in SUBSET (0..6)
        OBVIOUS
      <4> QED BY <3>3, <4>1, <4>2
    <3> QED BY <1>1, <1>3, <3>1, <3>2, <3>3 DEF RepeatTypes
  <2>2. type \in {"daily", "weekly", "monthly", "yearly"}
    BY <1>1, <1>3 DEF RepeatTypes
  <2>3. rule \in Rules /\ rule.type # "other"
    BY <1>1, <1>3, <2>1, <2>2 DEF Rules
  <2>4. rule # NoRule
    BY <2>3, RulesAre
  <2>5. /\ rule.frequency = a.repeatFrequency /\ rule.until = a.repeatEnd /\ rule.type = type
        /\ a.repeatType = "weekly" => rule.days = PalmToKCalDays(a.repeatDays)
    BY <2>1
  <2> QED BY <1>3, <2>3, <2>4, <2>5
<1> QED BY <1>2, <1>3

LEMMA RuleToRepeat ==
    ASSUME NEW rule \in {NoRule} \cup Rules
    PROVE  LET r == RRuleToPalmRepeat(rule)
           IN  /\ r.repeatType \in RepeatTypes \ {"monthlyByDay"}
               /\ r.repeatFrequency \in Nat /\ r.repeatEnd \in Nat
               /\ r.repeatDays \in SUBSET (0..6)
               /\ r.repeatType # "weekly" => r.repeatDays = {}
               /\ rule = NoRule \/ rule.type = "other"
                     => r.repeatType = "none" /\ r.repeatFrequency = 0 /\ r.repeatEnd = Forever
               /\ rule # NoRule /\ rule.type # "other" =>
                     /\ r.repeatFrequency = rule.frequency /\ r.repeatFrequency > 0
                     /\ r.repeatEnd = rule.until
                     /\ r.repeatType = IF rule.type = "monthly" THEN "monthlyByDate" ELSE rule.type
                     /\ r.repeatType # "none"
                     /\ rule.type = "weekly" => r.repeatDays = KCalToPalmDays(rule.days)
<1> DEFINE r == RRuleToPalmRepeat(rule)
<1>0. NoRule.type = "none"
  BY DEF NoRule
<1>1. CASE rule = NoRule \/ rule.type = "other"
  <2>1. r = [repeatType |-> "none", repeatFrequency |-> 0, repeatDays |-> {},
             repeatEnd |-> Forever]
    BY <1>0, <1>1 DEF RRuleToPalmRepeat
  <2> HIDE DEF r
  <2> QED BY <1>1, <2>1 DEF RepeatTypes, Forever, r
<1>2. CASE rule # NoRule /\ rule.type # "other"
  <2>1. /\ rule.type \in {"daily", "weekly", "monthly", "yearly"} /\ rule.frequency \in Nat
        /\ rule.frequency > 0 /\ rule.days \in SUBSET (0..6) /\ rule.until \in Nat
    BY <1>2 DEF Rules
  <2>2. KCalToPalmDays(rule.days) \in SUBSET (0..6)
    BY <2>1, DaysRoundTrip
  <2>3. /\ r.repeatFrequency = rule.frequency /\ r.repeatEnd = rule.until
        /\ r.repeatType = IF rule.type = "monthly" THEN "monthlyByDate" ELSE rule.type
        /\ r.repeatDays = IF rule.type = "weekly" THEN KCalToPalmDays(rule.days) ELSE {}
    BY <1>2, <2>1 DEF RRuleToPalmRepeat
  <2> HIDE DEF r
  <2>4. r.repeatType \in RepeatTypes \ {"monthlyByDay", "none"}
    BY <2>1, <2>3 DEF RepeatTypes
  <2>5. r.repeatDays \in SUBSET (0..6) /\ (r.repeatType # "weekly" => r.repeatDays = {})
    BY <2>1, <2>2, <2>3
  <2> QED BY <1>2, <2>1, <2>3, <2>4, <2>5 DEF r
<1> QED BY <1>1, <1>2

(* Reading makes an event of every appointment.                            *)
LEMMA AppointmentRead ==
    ASSUME NEW a \in Appointments
    PROVE  DecodeAppointment(a) \in Events
<1> DEFINE e == DecodeAppointment(a)
<1>1. /\ a.untimed \in BOOLEAN /\ a.begin \in Nat /\ a.end \in Nat /\ a.alarm \in BOOLEAN
      /\ a.advance \in Nat /\ a.units \in 0..2 /\ a.exceptions \in SUBSET Nat
      /\ a.rest \in Seq(Bytes)
  BY DEF Appointments
<1>2. a.rest \in Seq(Nat)
  BY <1>1, Latin1Text
<1>3. PalmRepeatToRRule(a) \in {NoRule} \cup Rules
  BY RepeatToRule
<1>4. \E n \in Nat : PalmAlarmToVAlarm(a.advance, a.units) = n * 60
  <2>1. a.units = 0 \/ a.units = 1 \/ a.units = 2
    BY <1>1
  <2>2. \E k \in Nat : UnitSeconds(a.units) = k * 60
    <3>1. UnitSeconds(0) = 1 * 60 /\ UnitSeconds(1) = 60 * 60 /\ UnitSeconds(2) = 1440 * 60
      BY DEF UnitSeconds
    <3> QED BY <2>1, <3>1
  <2>3. PICK k \in Nat : UnitSeconds(a.units) = k * 60
    BY <2>2
  <2>4. PalmAlarmToVAlarm(a.advance, a.units) = (a.advance * k) * 60 /\ a.advance * k \in Nat
    BY <1>1, <2>3 DEF PalmAlarmToVAlarm
  <2> QED BY <2>4
<1>5. /\ e.alarm \in [set : BOOLEAN, before : Nat]
      /\ e.alarm.set => e.alarm.before % 60 = 0
  <2>1. PICK n \in Nat : PalmAlarmToVAlarm(a.advance, a.units) = n * 60
    BY <1>4
  <2>2. n * 60 \in Nat /\ (n * 60) % 60 = 0
    BY WholeMinutes
  <2>3. e.alarm = IF a.alarm THEN [set |-> TRUE, before |-> n * 60]
                  ELSE [set |-> FALSE, before |-> 0]
    BY <2>1 DEF DecodeAppointment, NoAlarm
  <2> HIDE DEF e
  <2> QED BY <1>1, <2>2, <2>3
<1>6. /\ e = [allDay |-> e.allDay, begin |-> e.begin, end |-> e.end, alarm |-> e.alarm,
              rule |-> e.rule, exDates |-> e.exDates, rest |-> e.rest]
      /\ e.allDay = a.untimed /\ e.begin = a.begin
      /\ e.end = IF a.untimed THEN a.begin ELSE a.end
      /\ e.rule = PalmRepeatToRRule(a) /\ e.exDates = a.exceptions /\ e.rest = a.rest
  BY DEF DecodeAppointment
<1> HIDE DEF e
<1>7. e \in [allDay : BOOLEAN, begin : Nat, end : Nat, alarm : [set : BOOLEAN, before : Nat],
            rule : {NoRule} \cup Rules, exDates : SUBSET Nat, rest : Seq(Nat)]
  BY <1>1, <1>2, <1>3, <1>5, <1>6
<1> QED BY <1>5, <1>7 DEF Events, e

(* Writing makes an appointment of every event, one that is carried.       *)
LEMMA AppointmentWritten ==
    ASSUME NEW e \in Events
    PROVE  LET a == EncodeAppointment(e)
           IN  /\ a \in Appointments
               /\ a.repeatType # "monthlyByDay"
               /\ a.alarm => a.advance > 0
               /\ a.repeatWeekstart = 0
               /\ a.untimed = e.allDay /\ a.begin = e.begin
               /\ a.end = IF e.allDay THEN e.begin ELSE e.end
               /\ a.rest = ToLatin1(e.rest)
               /\ a.alarm <=> e.alarm.set /\ e.alarm.before > 0
               /\ a.alarm => PalmAlarmToVAlarm(a.advance, a.units) = e.alarm.before
               /\ [alarm |-> a.alarm, advance |-> a.advance, units |-> a.units]
                    = VAlarmToPalmAlarm(IF e.alarm.set THEN e.alarm.before ELSE 0)
<1> DEFINE a == EncodeAppointment(e)
           seconds == IF e.alarm.set THEN e.alarm.before ELSE 0
           al == VAlarmToPalmAlarm(seconds)
           r == RRuleToPalmRepeat(e.rule)
<1>1. /\ e.allDay \in BOOLEAN /\ e.begin \in Nat /\ e.end \in Nat
      /\ e.alarm.set \in BOOLEAN /\ e.alarm.before \in Nat
      /\ e.rule \in {NoRule} \cup Rules /\ e.exDates \in SUBSET Nat /\ e.rest \in Seq(Nat)
  BY DEF Events
<1>2. /\ al.alarm \in BOOLEAN /\ al.advance \in Nat /\ al.units \in 0..2
      /\ al.alarm <=> seconds > 0
      /\ al.alarm => PalmAlarmToVAlarm(al.advance, al.units) = seconds
      /\ al = [alarm |-> al.alarm, advance |-> al.advance, units |-> al.units]
  <2>1. \E n \in Nat : seconds = n * 60
    <3>1. CASE e.alarm.set
      <4>1. e.alarm.before % 60 = 0
        BY <3>1 DEF Events
      <4> QED BY <1>1, <3>1, <4>1, WholeMinutes
    <3>2. CASE ~e.alarm.set
      <4>1. seconds = 0 * 60
        BY <3>2
      <4> QED BY <4>1
    <3> QED BY <1>1, <3>1, <3>2
  <2>2. PICK n \in Nat : seconds = n * 60
    BY <2>1
  <2>3. n > 0 <=> seconds > 0
    BY <2>2
  <2>4. al = [alarm |-> al.alarm, advance |-> al.advance, units |-> al.units]
    <3> HIDE DEF seconds
    <3> QED BY DEF VAlarmToPalmAlarm
  <2> HIDE DEF seconds
  <2> QED BY <2>2, <2>3, <2>4, AlarmRoundTrip
<1>3. al.alarm => al.advance > 0
  BY <1>1, <1>2 DEF PalmAlarmToVAlarm, UnitSeconds
<1>4. /\ a = [untimed |-> a.untimed, begin |-> a.begin, end |-> a.end, alarm |-> a.alarm,
              advance |-> a.advance, units |-> a.units, repeatType |-> a.repeatType,
              repeatFrequency |-> a.repeatFrequency, repeatDays |-> a.repeatDays,
              repeatWeekstart |-> a.repeatWeekstart, repeatEnd |-> a.repeatEnd,
              exceptions |-> a.exceptions, rest |-> a.rest]
      /\ a.untimed = e.allDay /\ a.begin = e.begin
      /\ a.end = IF e.allDay THEN e.begin ELSE e.end
      /\ a.alarm = al.alarm /\ a.advance = al.advance /\ a.units = al.units
      /\ a.repeatType = r.repeatType /\ a.repeatFrequency = r.repeatFrequency
      /\ a.repeatDays = r.repeatDays /\ a.repeatEnd = r.repeatEnd /\ a.repeatWeekstart = 0
      /\ a.exceptions = (IF e.rule = NoRule THEN {} ELSE e.exDates)
      /\ a.rest = ToLatin1(e.rest)
  BY DEF EncodeAppointment
<1>5. /\ r.repeatType \in RepeatTypes \ {"monthlyByDay"}
      /\ r.repeatFrequency \in Nat /\ r.repeatEnd \in Nat /\ r.repeatDays \in SUBSET (0..6)
      /\ r.repeatType # "weekly" => r.repeatDays = {}
      /\ \/ r.repeatType = "none" /\ r.repeatFrequency = 0 /\ r.repeatEnd = Forever
         \/ r.repeatFrequency > 0 /\ r.repeatType # "none"
  BY <1>1, RuleToRepeat
<1>6. ToLatin1(e.rest) \in Seq(Bytes)
  BY <1>1, Latin1Text
<1> HIDE DEF a, al, r
<1>7. a \in AppointmentRecords
  <2>1. a.exceptions \in SUBSET Nat
    BY <1>1, <1>4
  <2> QED BY <1>1, <1>2, <1>4, <1>5, <1>6, <2>1 DEF AppointmentRecords
<1>8. a \in Appointments
  <2>1. a.untimed => a.end = a.begin
    BY <1>4
  <2>2. a.repeatType # "weekly" => a.repeatDays = {}
    BY <1>4, <1>5
  <2>3. IF a.repeatType = "none"
        THEN a.repeatFrequency = 0 /\ a.repeatWeekstart = 0 /\ a.repeatEnd = Forever
        ELSE a.repeatFrequency > 0
    BY <1>4, <1>5
  <2> QED BY <1>7, <2>1, <2>2, <2>3 DEF Appointments, AppointmentRecords
<1>10. a.alarm <=> e.alarm.set /\ e.alarm.before > 0
  BY <1>1, <1>2, <1>4
<1>11. a.alarm => PalmAlarmToVAlarm(a.advance, a.units) = e.alarm.before
  BY <1>1, <1>2, <1>4
<1> QED BY <1>2, <1>3, <1>4, <1>5, <1>6, <1>8, <1>10, <1>11 DEF a, al

(* There and back: everything but the unit of the alarm, the week start    *)
(* and the exceptions of what does not repeat.                             *)
LEMMA AppointmentRoundTrip ==
    ASSUME NEW a \in Appointments, a.repeatType # "monthlyByDay", a.alarm => a.advance > 0
    PROVE  LET b == EncodeAppointment(DecodeAppointment(a))
           IN  /\ b \in Appointments
               /\ b.untimed = a.untimed /\ b.begin = a.begin /\ b.end = a.end
               /\ b.alarm = a.alarm
               /\ b.alarm => PalmAlarmToVAlarm(b.advance, b.units)
                               = PalmAlarmToVAlarm(a.advance, a.units)
               /\ [alarm |-> b.alarm, advance |-> b.advance, units |-> b.units]
                     = VAlarmToPalmAlarm(IF a.alarm THEN PalmAlarmToVAlarm(a.advance, a.units)
                                         ELSE 0)
               /\ b.repeatType = a.repeatType /\ b.repeatFrequency = a.repeatFrequency
               /\ b.repeatDays = a.repeatDays /\ b.repeatEnd = a.repeatEnd
               /\ b.repeatWeekstart = 0
               /\ b.exceptions = IF a.repeatType = "none" THEN {} ELSE a.exceptions
               /\ b.rest = a.rest
<1> DEFINE e == DecodeAppointment(a)
           b == EncodeAppointment(e)
           rule == PalmRepeatToRRule(a)
           r == RRuleToPalmRepeat(rule)
           before == PalmAlarmToVAlarm(a.advance, a.units)
<1>1. /\ a.untimed \in BOOLEAN /\ a.begin \in Nat /\ a.end \in Nat /\ a.alarm \in BOOLEAN
      /\ a.advance \in Nat /\ a.units \in 0..2 /\ a.rest \in Seq(Bytes)
      /\ a.repeatType \in RepeatTypes /\ a.repeatDays \in SUBSET (0..6)
      /\ a.untimed => a.end = a.begin
      /\ a.repeatType # "weekly" => a.repeatDays = {}
      /\ a.repeatType = "none" => a.repeatFrequency = 0 /\ a.repeatEnd = Forever
  BY DEF Appointments
<1>2. /\ e.allDay = a.untimed /\ e.begin = a.begin
      /\ e.end = IF a.untimed THEN a.begin ELSE a.end
      /\ e.alarm.set = a.alarm /\ (a.alarm => e.alarm.before = before)
      /\ e.rule = rule /\ e.exDates = a.exceptions /\ e.rest = a.rest
  BY <1>1 DEF DecodeAppointment
<1>3. e \in Events
  BY AppointmentRead
<1>4. /\ b \in Appointments /\ b.repeatWeekstart = 0
      /\ b.untimed = e.allDay /\ b.begin = e.begin
      /\ b.end = IF e.allDay THEN e.begin ELSE e.end
      /\ b.rest = ToLatin1(e.rest)
      /\ b.alarm <=> e.alarm.set /\ e.alarm.before > 0
      /\ b.alarm => PalmAlarmToVAlarm(b.advance, b.units) = e.alarm.before
      /\ [alarm |-> b.alarm, advance |-> b.advance, units |-> b.units]
           = VAlarmToPalmAlarm(IF e.alarm.set THEN e.alarm.before ELSE 0)
  <2> HIDE DEF e
  <2> QED BY <1>3, AppointmentWritten
<1>5. /\ b.repeatType = RRuleToPalmRepeat(e.rule).repeatType
      /\ b.repeatFrequency = RRuleToPalmRepeat(e.rule).repeatFrequency
      /\ b.repeatDays = RRuleToPalmRepeat(e.rule).repeatDays
      /\ b.repeatEnd = RRuleToPalmRepeat(e.rule).repeatEnd
      /\ b.exceptions = (IF e.rule = NoRule THEN {} ELSE e.exDates)
  <2> HIDE DEF e
  <2> QED BY DEF EncodeAppointment
<1> HIDE DEF e, b
<1>6. /\ r.repeatType = a.repeatType /\ r.repeatFrequency = a.repeatFrequency
      /\ r.repeatDays = a.repeatDays /\ r.repeatEnd = a.repeatEnd
  <2>1. CASE a.repeatType = "none"
    <3>1. rule = NoRule
      BY <2>1, RepeatToRule
    <3> HIDE DEF rule
    <3>2. /\ r.repeatType = "none" /\ r.repeatFrequency = 0 /\ r.repeatEnd = Forever
          /\ r.repeatType # "weekly" => r.repeatDays = {}
      BY <3>1, RuleToRepeat
    <3> QED BY <1>1, <2>1, <3>2
  <2>2. CASE a.repeatType # "none"
    <3>1. /\ rule \in Rules /\ rule # NoRule /\ rule.type # "other"
          /\ rule.frequency = a.repeatFrequency /\ rule.until = a.repeatEnd
          /\ rule.type = IF a.repeatType = "monthlyByDate" THEN "monthly" ELSE a.repeatType
          /\ a.repeatType = "weekly" => rule.days = PalmToKCalDays(a.repeatDays)
      BY <2>2, RepeatToRule
    <3> HIDE DEF rule
    <3>2. /\ r.repeatFrequency = rule.frequency /\ r.repeatEnd = rule.until
          /\ r.repeatType = IF rule.type = "monthly" THEN "monthlyByDate" ELSE rule.type
          /\ rule.type = "weekly" => r.repeatDays = KCalToPalmDays(rule.days)
          /\ r.repeatType # "weekly" => r.repeatDays = {}
      BY <3>1, RuleToRepeat
    <3>3. r.repeatType = a.repeatType
      BY <1>1, <3>1, <3>2 DEF RepeatTypes
    <3>4. r.repeatDays = a.repeatDays
      <4>1. CASE a.repeatType = "weekly"
        BY <1>1, <3>1, <3>2, <4>1, DaysRoundTrip
      <4>2. CASE a.repeatType # "weekly"
        BY <1>1, <3>2, <3>3, <4>2
      <4> QED BY <4>1, <4>2
    <3> QED BY <3>1, <3>2, <3>3, <3>4
  <2> QED BY <2>1, <2>2
<1>7. b.exceptions = IF a.repeatType = "none" THEN {} ELSE a.exceptions
  BY <1>1, <1>2, <1>5, RepeatToRule
<1>8. a.alarm => before > 0
  <2>1. UnitSeconds(a.units) \in Nat /\ UnitSeconds(a.units) > 0
    BY <1>1 DEF UnitSeconds
  <2>2. \A m, n \in Nat : m > 0 /\ n > 0 => m * n > 0
    OBVIOUS
  <2> QED BY <1>1, <2>1, <2>2 DEF PalmAlarmToVAlarm
<1>9. b.alarm = a.alarm
  <2>1. b.alarm \in BOOLEAN
    BY <1>4 DEF Appointments
  <2> QED BY <1>1, <1>2, <1>4, <1>8, <2>1
<1>10. b.rest = a.rest
  BY <1>1, <1>2, <1>4, Latin1Text
<1>11. b.end = a.end
  BY <1>1, <1>2, <1>4
<1>12. [alarm |-> b.alarm, advance |-> b.advance, units |-> b.units]
         = VAlarmToPalmAlarm(IF a.alarm THEN before ELSE 0)
  BY <1>2, <1>4
<1>13. b.alarm => PalmAlarmToVAlarm(b.advance, b.units) = before
  BY <1>2, <1>4, <1>9
<1> HIDE DEF rule, r, before
<1> QED
  BY <1>2, <1>4, <1>5, <1>6, <1>7, <1>9, <1>10, <1>11, <1>12, <1>13 DEF b, e, rule, r, before

(* Why whole minutes: of an alarm half a minute before the event the first *)
(* writing makes one at the event, and the second none; an hour and a      *)
(* second becomes sixty minutes, and then one hour.                        *)
LEMMA SecondsUnsettled ==
    /\ VAlarmToPalmAlarm(30) = [alarm |-> TRUE, advance |-> 0, units |-> 0]
    /\ VAlarmToPalmAlarm(PalmAlarmToVAlarm(0, 0)).alarm = FALSE
    /\ VAlarmToPalmAlarm(3601) = [alarm |-> TRUE, advance |-> 60, units |-> 0]
    /\ VAlarmToPalmAlarm(PalmAlarmToVAlarm(60, 0)) = [alarm |-> TRUE, advance |-> 1, units |-> 1]
<1>1. UnitSeconds(0) = 60 /\ UnitSeconds(1) = 3600 /\ UnitSeconds(2) = 86400
  BY DEF UnitSeconds
<1>2. ASSUME NEW s \in {30, 3600, 3601}
      PROVE  VAlarmToPalmAlarm(s) =
               LET unit == IF s = 3600 THEN 1 ELSE 0
               IN  [alarm |-> TRUE, advance |-> s \div UnitSeconds(unit), units |-> unit]
  <2> DEFINE unit == IF s = 3600 THEN 1 ELSE 0
             Fits(u) == /\ u = 0 \/ s % UnitSeconds(u) = 0
                        /\ \A v \in (u + 1)..2 : s % UnitSeconds(v) # 0
             units == CHOOSE u \in 0..2 : Fits(u)
  <2>1. \A u \in 0..2 : Fits(u) <=> u = unit
    BY <1>1
  <2>2. VAlarmToPalmAlarm(s) =
          [alarm |-> TRUE, advance |-> s \div UnitSeconds(units), units |-> units]
    BY DEF VAlarmToPalmAlarm
  <2>3. unit \in 0..2
    OBVIOUS
  <2> HIDE DEF Fits, unit
  <2>4. units = unit
    BY <2>1, <2>3
  <2> HIDE DEF units
  <2> QED BY <2>2, <2>4 DEF unit
<1>3. /\ VAlarmToPalmAlarm(30) = [alarm |-> TRUE, advance |-> 30 \div UnitSeconds(0), units |-> 0]
      /\ VAlarmToPalmAlarm(3601)
           = [alarm |-> TRUE, advance |-> 3601 \div UnitSeconds(0), units |-> 0]
      /\ VAlarmToPalmAlarm(3600)
           = [alarm |-> TRUE, advance |-> 3600 \div UnitSeconds(1), units |-> 1]
  BY <1>2
<1>4. PalmAlarmToVAlarm(0, 0) = 0 /\ PalmAlarmToVAlarm(60, 0) = 3600
  BY <1>1 DEF PalmAlarmToVAlarm
<1>5. VAlarmToPalmAlarm(0).alarm = FALSE
  BY DEF VAlarmToPalmAlarm
<1>6. 30 \div 60 = 0 /\ 3601 \div 60 = 60 /\ 3600 \div 3600 = 1
  OBVIOUS
<1> QED BY <1>1, <1>3, <1>4, <1>5, <1>6

(* Why exceptions take two rounds: of a rule that the Palm has not, the    *)
(* first writing leaves the exceptions without a repetition, and the next  *)
(* reading has nothing that recurs to write them for.                      *)
LEMMA ExceptionsUnsettled ==
    ASSUME NEW e \in Events, e.rule \in Rules, e.rule.type = "other"
    PROVE  LET a == EncodeAppointment(e)
           IN  /\ a.repeatType = "none" /\ a.exceptions = e.exDates
               /\ EncodeAppointment(DecodeAppointment(a)).exceptions = {}
<1> DEFINE a == EncodeAppointment(e)
<1>1. /\ a \in Appointments
      /\ a.repeatType = RRuleToPalmRepeat(e.rule).repeatType
      /\ a.exceptions = (IF e.rule = NoRule THEN {} ELSE e.exDates)
  BY AppointmentWritten DEF EncodeAppointment
<1> HIDE DEF a
<1>2. a.repeatType = "none" /\ a.exceptions = e.exDates
  BY <1>1, RuleToRepeat, RulesAre
<1>3. DecodeAppointment(a).rule = NoRule
  BY <1>1, <1>2, RepeatToRule DEF DecodeAppointment
<1>4. EncodeAppointment(DecodeAppointment(a)).exceptions = {}
  BY <1>3 DEF EncodeAppointment
<1> QED BY <1>2, <1>4 DEF a

-----------------------------------------------------------------------------
(* To-dos.                                                                 *)

LEMMA TodoRead ==
    ASSUME NEW t \in Todos
    PROVE  LET k == ToKCalTodo(DecodeTodo(t))
           IN  /\ k \in KTodos
               /\ k.due = t.due /\ k.priority = t.priority /\ k.complete = t.complete
               /\ k.rest = DecodePalmText(t.rest)
<1>1. /\ t \in [indefinite : BOOLEAN, due : Nat, priority : 1..5, complete : BOOLEAN,
                rest : Seq(Bytes)]
      /\ t.indefinite => t.due = NoDate
  BY DEF Todos
<1> DEFINE u == DecodeTodo(t)
<1>2. /\ u.indefinite = t.indefinite /\ u.due = t.due /\ u.priority = t.priority
      /\ u.complete = t.complete /\ u.rest = DecodePalmText(t.rest)
  BY <1>1 DEF DecodeTodo
<1> HIDE DEF u
<1>3. DecodePalmText(t.rest) \in Seq(Nat)
  BY <1>1, TextRoundTrip
<1>4. Bound(1, t.priority, 5) = t.priority
  BY <1>1 DEF Bound
<1>5. ToKCalTodo(u) = [due |-> t.due, priority |-> t.priority, complete |-> t.complete,
                       rest |-> DecodePalmText(t.rest)]
  BY <1>1, <1>2, <1>4 DEF ToKCalTodo
<1> QED BY <1>1, <1>3, <1>5 DEF KTodos, u

LEMMA TodoWritten ==
    ASSUME NEW k \in KTodos
    PROVE  LET t == EncodeTodo(FromKCalTodo(k))
               priority == Bound(1, k.priority, 5)
           IN  /\ t \in Todos
               /\ t = [indefinite |-> k.due = NoDate, due |-> k.due, priority |-> priority,
                       complete |-> k.complete, rest |-> EncodePalmText(k.rest)]
<1>1. /\ k.due \in Nat /\ k.priority \in 0..9 /\ k.complete \in BOOLEAN /\ k.rest \in Seq(Nat)
  BY DEF KTodos
<1> DEFINE u == FromKCalTodo(k)
           priority == Bound(1, k.priority, 5)
<1>2. priority \in 1..5
  BY <1>1 DEF Bound
<1>3. u = [indefinite |-> k.due = NoDate, due |-> k.due, priority |-> priority,
           complete |-> k.complete, rest |-> k.rest]
  BY DEF FromKCalTodo
<1> HIDE DEF u, priority
<1>4. EncodeTodo(u) = [indefinite |-> k.due = NoDate, due |-> k.due, priority |-> priority,
                       complete |-> k.complete, rest |-> EncodePalmText(k.rest)]
  <2>1. EncodeTodo(u) = [[u EXCEPT !.due = k.due] EXCEPT !.rest = EncodePalmText(u.rest)]
    <3>1. (IF u.indefinite THEN NoDate ELSE u.due) = k.due
      BY <1>3
    <3>2. EncodeTodo(u) = [[u EXCEPT !.due = IF u.indefinite THEN NoDate ELSE u.due]
                             EXCEPT !.rest = EncodePalmText(u.rest)]
      BY <1>3 DEF EncodeTodo
    <3> QED BY <3>1, <3>2
  <2> QED BY <1>3, <2>1
<1>5. EncodePalmText(k.rest) \in Seq(Bytes)
  BY <1>1, TextRoundTrip
<1>6. ASSUME NEW b \in BOOLEAN, b => k.due = NoDate
      PROVE  [indefinite |-> b, due |-> k.due, priority |-> priority,
              complete |-> k.complete, rest |-> EncodePalmText(k.rest)] \in Todos
  BY <1>1, <1>2, <1>5, <1>6 DEF Todos
<1>7. EncodeTodo(u) \in Todos
  <2>1. CASE k.due = NoDate
    <3>1. (k.due = NoDate) = TRUE
      BY <2>1
    <3> QED BY <1>4, <1>6, <2>1, <3>1
  <2>2. CASE k.due # NoDate
    <3>1. (k.due = NoDate) = FALSE
      BY <2>2
    <3> QED BY <1>4, <1>6, <2>2, <3>1
  <2> QED BY <2>1, <2>2
<1> QED BY <1>4, <1>7 DEF u, priority

(* A to-do that is indefinite or has a date comes back as it was; after a  *)
(* first writing every one does.                                           *)
LEMMA TodoRoundTrip ==
    ASSUME NEW t \in Todos, t.indefinite \/ t.due # NoDate
    PROVE  EncodeTodo(FromKCalTodo(ToKCalTodo(DecodeTodo(t)))) = t
<1>1. /\ t \in [indefinite : BOOLEAN, due : Nat, priority : 1..5, complete : BOOLEAN,
                rest : Seq(Bytes)]
      /\ t.indefinite => t.due = NoDate
  BY DEF Todos
<1> DEFINE k == ToKCalTodo(DecodeTodo(t))
<1>2. /\ k \in KTodos
      /\ k.due = t.due /\ k.priority = t.priority /\ k.complete = t.complete
      /\ k.rest = DecodePalmText(t.rest)
  BY TodoRead
<1> HIDE DEF k
<1>3. EncodeTodo(FromKCalTodo(k)) =
        [indefinite |-> k.due = NoDate, due |-> k.due, priority |-> k.priority,
         complete |-> k.complete, rest |-> EncodePalmText(k.rest)]
  <2>1. Bound(1, k.priority, 5) = k.priority
    BY <1>1, <1>2 DEF Bound
  <2> QED BY <1>2, <2>1, TodoWritten
<1>4. EncodePalmText(k.rest) = t.rest
  BY <1>1, <1>2, TextRoundTrip
<1>5. t.indefinite = (k.due = NoDate)
  BY <1>1, <1>2
<1>6. t = [indefinite |-> t.indefinite, due |-> t.due, priority |-> t.priority,
           complete |-> t.complete, rest |-> t.rest]
  BY <1>1
<1> QED BY <1>2, <1>3, <1>4, <1>5, <1>6 DEF k

-----------------------------------------------------------------------------
(* Contacts.                                                               *)

Below(S, i) == Cardinality({j \in S : j < i})

LEMMA BelowGrows ==
    ASSUME NEW S \in SUBSET Nat, IsFiniteSet(S), NEW x \in S, NEW y \in S, x < y
    PROVE  Below(S, x) < Below(S, y)
<1> DEFINE below(z) == {w \in S : w < z}
<1>1. below(x) \in SUBSET S /\ below(y) \in SUBSET S
  OBVIOUS
<1>2. /\ IsFiniteSet(below(x)) /\ IsFiniteSet(below(y))
      /\ Cardinality(below(x)) \in Nat /\ Cardinality(below(y)) \in Nat
  <2> HIDE DEF below
  <2> QED BY <1>1, FS_Subset, FS_CardinalityType
<1>3. x \notin below(x) /\ below(x) \cup {x} \in SUBSET below(y)
  <2>1. \A z \in S : z \in Nat
    OBVIOUS
  <2>2. \A z \in S : z < x => z < y
    BY <2>1
  <2>3. ~(x < x)
    BY <2>1
  <2> QED BY <2>2, <2>3, Zenon
<1>4. Cardinality(below(x) \cup {x}) = Cardinality(below(x)) + 1
  <2> HIDE DEF below
  <2> QED BY <1>2, <1>3, FS_AddElement
<1>5. Cardinality(below(x) \cup {x}) <= Cardinality(below(y))
  <2> HIDE DEF below
  <2> QED BY <1>2, <1>3, FS_Subset
<1>6. Below(S, x) = Cardinality(below(x)) /\ Below(S, y) = Cardinality(below(y))
  BY DEF Below
<1> HIDE DEF below
<1> QED BY <1>2, <1>4, <1>5, <1>6

LEMMA BelowBound ==
    ASSUME NEW S \in SUBSET Nat, IsFiniteSet(S), NEW x \in S
    PROVE  /\ Below(S, x) \in Nat /\ Cardinality(S) \in Nat
           /\ Below(S, x) + 1 \in 1..Cardinality(S)
<1> DEFINE below == {w \in S : w < x}
<1>1. below \in SUBSET S /\ x \notin below
  OBVIOUS
<1>2. Below(S, x) = Cardinality(below)
  BY DEF Below
<1> HIDE DEF below
<1>3. /\ IsFiniteSet(below) /\ Cardinality(below) <= Cardinality(S)
      /\ Cardinality(S) = Cardinality(below) => S = below
  BY <1>1, FS_Subset
<1>4. Cardinality(below) \in Nat /\ Cardinality(S) \in Nat
  BY <1>3, FS_CardinalityType
<1>5. Cardinality(S) # Cardinality(below)
  BY <1>1, <1>3
<1> QED BY <1>2, <1>3, <1>4, <1>5

(* A finite set of numbers has an element at every place.                  *)
LEMMA PlaceTaken ==
    ASSUME NEW S \in SUBSET Nat, IsFiniteSet(S)
    PROVE  \A k \in 1..Cardinality(S) : \E x \in S : Below(S, x) = k - 1
<1> DEFINE T == 1..Cardinality(S)
           f == [x \in S |-> Below(S, x) + 1]
<1>1. Cardinality(S) \in Nat
  BY FS_CardinalityType
<1>2. IsFiniteSet(T) /\ Cardinality(T) = Cardinality(S)
  BY <1>1, FS_Interval
<1>3. f \in [S -> T]
  BY BelowBound
<1>4. ASSUME NEW x \in S, NEW y \in S, f[x] = f[y]
      PROVE  x = y
  <2>1. Below(S, x) = Below(S, y)
    BY <1>4, BelowBound
  <2>2. ~(x < y) /\ ~(y < x)
    BY <2>1, BelowGrows, BelowBound
  <2>3. x \in Nat /\ y \in Nat
    OBVIOUS
  <2> QED BY <2>2, <2>3
<1>5. f \in Injection(S, T)
  <2> HIDE DEF f, T
  <2> QED BY <1>3, <1>4 DEF Injection, IsInjective
<1>6. f \in Surjection(S, T)
  <2> HIDE DEF f, T
  <2> QED BY <1>2, <1>5, FS_Injection
<1>7. ASSUME NEW k \in T
      PROVE  \E x \in S : Below(S, x) = k - 1
  <2>1. PICK x \in S : f[x] = k
    <3> HIDE DEF f, T
    <3> QED BY <1>6 DEF Surjection
  <2>2. Below(S, x) + 1 = k
    BY <2>1
  <2> QED BY <2>2, BelowBound
<1> QED BY <1>7

NoGap(phone) == \A i, j \in Slots : i < j /\ phone[j] # NoText => phone[i] # NoText

(* The list of full slots: one place for each, in order; without a gap     *)
(* place k has slot k - 1.                                                 *)
LEMMA FullSlotsAre ==
    ASSUME NEW phone \in [Slots -> {NoText} \cup STRING]
    PROVE  LET full == FullSlots(phone)
           IN  /\ full \in Seq(Slots) /\ Len(full) \in 0..5
               /\ \A k \in 1..Len(full) : phone[full[k]] # NoText
               /\ NoGap(phone) => /\ \A i \in Slots : phone[i] # NoText <=> i < Len(full)
                                  /\ \A k \in 1..Len(full) : full[k] = k - 1
<1> DEFINE S == {i \in Slots : phone[i] # NoText}
           n == Cardinality(S)
           At(k) == CHOOSE i \in S : Cardinality({j \in S : j < i}) = k - 1
           full == FullSlots(phone)
<1>1. S \in SUBSET Slots /\ Slots \in SUBSET Nat /\ IsFiniteSet(Slots) /\ Cardinality(Slots) = 5
  <2>1. \A m \in Nat : IsFiniteSet(0..m) /\ Cardinality(0..m) = m + 1
    BY FS_Interval
  <2>2. IsFiniteSet(0..4) /\ Cardinality(0..4) = 4 + 1
    BY <2>1
  <2>3. Slots \in SUBSET Nat
    BY DEF Slots
  <2> QED BY <2>2, <2>3 DEF Slots
<1>2. S \in SUBSET Nat /\ IsFiniteSet(S) /\ n \in Nat /\ n <= 5
  <2> HIDE DEF S
  <2>1. IsFiniteSet(S) /\ n <= Cardinality(Slots)
    BY <1>1, FS_Subset
  <2>2. n \in Nat
    BY <2>1, FS_CardinalityType
  <2>3. S \in SUBSET Nat
    BY <1>1
  <2> QED BY <1>1, <2>1, <2>2, <2>3
<1>3. full = [k \in 1..n |-> At(k)]
  BY DEF FullSlots
<1>4. ASSUME NEW k \in 1..n
      PROVE  At(k) \in S /\ Below(S, At(k)) = k - 1
  <2> HIDE DEF S
  <2>1. \E x \in S : Cardinality({j \in S : j < x}) = k - 1
    BY <1>2, PlaceTaken DEF Below
  <2> QED BY <2>1 DEF Below
<1>5. \A k \in 1..n : full[k] \in S /\ Below(S, full[k]) = k - 1
  <2> HIDE DEF S, At, full, n
  <2> QED BY <1>3, <1>4
<1>6. \A k \in 1..n : full[k] \in Slots /\ phone[full[k]] # NoText
  BY <1>5
<1>7. full \in Seq(Slots) /\ Len(full) = n
  <2> HIDE DEF At, S, full, n
  <2>1. DOMAIN full = 1..n
    BY <1>3
  <2>2. full = [k \in 1..n |-> full[k]]
    BY <1>3
  <2> QED BY <1>2, <1>6, <2>1, <2>2, IsSequence
<1>8. ASSUME NoGap(phone)
      PROVE  /\ \A i \in Slots : phone[i] # NoText <=> i < n
             /\ \A k \in 1..n : full[k] = k - 1
  <2>1. ASSUME NEW i \in S
        PROVE  Below(S, i) = i
    <3>1. i \in 0..4 /\ phone[i] # NoText
      BY DEF Slots
    <3>2. \A j \in Slots : j < i => j \in S
      BY <1>8, <3>1 DEF NoGap, Slots
    <3>3. {j \in S : j < i} = 0..(i - 1)
      <4>1. \A j \in S : j \in 0..4
        BY DEF Slots
      <4>2. \A j \in 0..(i - 1) : j \in Slots /\ j < i
        BY <3>1 DEF Slots
      <4>3. \A j \in S : j < i => j \in 0..(i - 1)
        BY <3>1, <4>1
      <4> HIDE DEF S
      <4> QED BY <3>2, <4>2, <4>3
    <3>4. Cardinality(0..(i - 1)) = i
      BY <3>1, FS_Interval
    <3> HIDE DEF S
    <3> QED BY <3>3, <3>4 DEF Below
  <2>2. \A k \in 1..n : full[k] = k - 1
    <3> HIDE DEF S, full, n
    <3> QED BY <1>5, <2>1
  <2>3. \A i \in S : i < n
    <3> HIDE DEF S
    <3>1. \A i \in S : i + 1 \in 1..n /\ i \in Nat
      BY <1>2, <2>1, BelowBound
    <3> HIDE DEF n
    <3> QED BY <1>2, <3>1
  <2>4. \A i \in Slots : i < n => i \in S
    <3> HIDE DEF S, full, n
    <3>1. \A i \in Slots : i < n => i + 1 \in 1..n /\ (i + 1) - 1 = i
      BY <1>2 DEF Slots
    <3> QED BY <1>5, <2>2, <3>1
  <2> HIDE DEF n, full
  <2> QED BY <2>2, <2>3, <2>4
<1> HIDE DEF full, n, S
<1> QED BY <1>2, <1>6, <1>7, <1>8 DEF full

(* The names of the labels and their numbers.                              *)
LEMMA Labels ==
    /\ \A i \in 0..7 :
         DefaultPhoneLabels[1 + i] \in LabelNames /\ DefaultPhoneLabels[1 + i] # NoText
    /\ \A i \in 0..7 : LabelStringToIndex(DefaultPhoneLabels[1 + i]) = i
    /\ \A label : LabelStringToIndex(label) \in 0..7
    /\ LabelStringToIndex(NoText) = OtherLabel
<1>1. \A i \in 0..7 : DefaultPhoneLabels[1 + i] \in LabelNames /\ DefaultPhoneLabels[1 + i] # NoText
  <2> DEFINE names == {"Work", "Home", "Fax", "Other", "E-mail", "Main", "Pager", "Mobile"}
  <2>1. \A l \in names : l # NoText
    BY Zenon DEF NoText
  <2>2. \A i \in 0..7 : DefaultPhoneLabels[1 + i] \in names
    BY DEF DefaultPhoneLabels
  <2>3. \A i \in 0..7 : DefaultPhoneLabels[1 + i] = DefaultPhoneLabels[i + 1]
    OBVIOUS
  <2> HIDE DEF names
  <2> QED BY <2>1, <2>2, <2>3 DEF LabelNames
<1>2. \A i, j \in 0..7 : DefaultPhoneLabels[i + 1] = DefaultPhoneLabels[j + 1] => i = j
  BY DEF DefaultPhoneLabels
<1>3. ASSUME NEW i \in 0..7
      PROVE  LabelStringToIndex(DefaultPhoneLabels[1 + i]) = i
  <2> DEFINE label == DefaultPhoneLabels[1 + i]
  <2>1. label = DefaultPhoneLabels[i + 1]
    OBVIOUS
  <2>2. \A j \in 0..7 : DefaultPhoneLabels[j + 1] = label => j = i
    BY <1>2, <2>1
  <2> HIDE DEF label
  <2>3. (CHOOSE j \in 0..7 : DefaultPhoneLabels[j + 1] = label) = i
    BY <2>1, <2>2
  <2> QED BY <2>1, <2>3 DEF LabelStringToIndex, label
<1>4. ASSUME NEW label
      PROVE  LabelStringToIndex(label) \in 0..7
  BY DEF LabelStringToIndex, OtherLabel
<1>5. LabelStringToIndex(NoText) = OtherLabel
  <2>1. \A i \in 0..7 : DefaultPhoneLabels[i + 1] # NoText
    BY <1>1
  <2> QED BY <2>1 DEF LabelStringToIndex
<1> QED BY <1>1, <1>3, <1>4, <1>5

-----------------------------------------------------------------------------
(* Every contact read is one that the desktop holds, without a gap place   *)
(* by place.                                                               *)
LEMMA ContactRead ==
    ASSUME NEW d \in Addresses
    PROVE  LET a == ToAddressee(DecodeContact(d))
           IN  /\ a \in Addressees
               /\ a.showPhone = d.showPhone /\ a.rest = DecodePalmText(d.rest)
               /\ NoGap(d.phone) =>
                    \A i \in Slots :
                      /\ i < Len(a.numbers) <=> d.phone[i] # NoText
                      /\ d.phone[i] # NoText =>
                           /\ a.numbers[i + 1] = d.phone[i]
                           /\ a.label[i] = DefaultPhoneLabels[1 + d.phoneLabel[i]]
<1> DEFINE c == DecodeContact(d)
           a == ToAddressee(c)
           full == FullSlots(d.phone)
           n == Len(full)
<1>1. /\ d.phone \in [Slots -> {NoText} \cup STRING] /\ d.phoneLabel \in [Slots -> 0..7]
      /\ d.showPhone \in Slots /\ d.rest \in Seq(Bytes)
  BY DEF Addresses
<1>2. /\ full \in Seq(Slots) /\ n \in 0..5 /\ DOMAIN full = 1..n
      /\ \A k \in 1..n : full[k] \in Slots /\ d.phone[full[k]] # NoText
      /\ NoGap(d.phone) => /\ \A i \in Slots : d.phone[i] # NoText <=> i < n
                           /\ \A k \in 1..n : full[k] = k - 1
  <2> HIDE DEF full
  <2>1. full \in Seq(Slots) =>
          DOMAIN full = 1..Len(full) /\ \A k \in 1..Len(full) : full[k] \in Slots
    BY Elements
  <2> QED BY <1>1, <2>1, FullSlotsAre DEF full
<1> HIDE DEF full, n
<1>3. /\ c.phone = d.phone /\ c.showPhone = d.showPhone /\ c.rest = DecodePalmText(d.rest)
      /\ c.phoneLabels = [k \in 1..n |-> DefaultPhoneLabels[1 + d.phoneLabel[full[k]]]]
  <2>1. c.phoneLabels = [k \in DOMAIN full |->
                           DefaultPhoneLabels[1 + IF d.phoneLabel[full[k]] \in 0..7
                                                  THEN d.phoneLabel[full[k]] ELSE OtherLabel]]
    BY DEF DecodeContact, full
  <2>2. \A k \in 1..n : d.phoneLabel[full[k]] \in 0..7
    BY <1>1, <1>2
  <2>3. c.phoneLabels = [k \in 1..n |-> DefaultPhoneLabels[1 + d.phoneLabel[full[k]]]]
    <3> HIDE DEF c
    <3> QED BY <1>2, <2>1, <2>2
  <2> QED BY <2>3 DEF DecodeContact
<1> HIDE DEF c
<1>4. \A k \in 1..n : DefaultPhoneLabels[1 + d.phoneLabel[full[k]]] \in LabelNames
  BY <1>1, <1>2, Labels
<1>5. Len(c.phoneLabels) = n /\ \A k \in 1..n : c.phoneLabels[k] \in LabelNames
  <2> DEFINE f == [k \in 1..n |-> DefaultPhoneLabels[1 + d.phoneLabel[full[k]]]]
  <2>1. DOMAIN f = 1..n /\ f = [k \in 1..n |-> f[k]] /\ \A k \in 1..n : f[k] \in LabelNames
    BY <1>4
  <2>2. n \in Nat
    BY <1>2
  <2> HIDE DEF f, n
  <2>3. f \in Seq(LabelNames) /\ Len(f) = n
    BY ZenonT(40), <2>1, <2>2, IsSequence
  <2> QED BY <1>3, <2>1, <2>3 DEF f
<1>6. /\ a.numbers = [k \in 1..n |-> d.phone[full[k]]]
      /\ a.label = [i \in Slots |-> IF d.phone[i] # NoText /\ i < n
                                    THEN c.phoneLabels[i + 1] ELSE NoText]
      /\ a.showPhone = d.showPhone /\ a.rest = DecodePalmText(d.rest)
      /\ a = [numbers |-> a.numbers, label |-> a.label, showPhone |-> a.showPhone, rest |-> a.rest]
  BY <1>2, <1>3, <1>5 DEF ToAddressee, full
<1> HIDE DEF a
<1>7. /\ a.numbers \in Seq({NoText} \cup STRING) /\ Len(a.numbers) = n
      /\ \A k \in 1..n : a.numbers[k] = d.phone[full[k]]
  <2>1. DOMAIN a.numbers = 1..n /\ a.numbers = [k \in 1..n |-> a.numbers[k]]
        /\ \A k \in 1..n : a.numbers[k] = d.phone[full[k]]
    BY <1>6
  <2>2. \A k \in 1..n : a.numbers[k] \in {NoText} \cup STRING
    BY <1>1, <1>2, <2>1
  <2> QED BY <1>2, <2>1, <2>2, IsSequence
<1>8. a.label \in [Slots -> LabelNames \cup {NoText}]
      /\ \A i \in Slots : a.label[i] # NoText => i < n
  <2>1. ASSUME NEW i \in Slots
        PROVE  /\ (IF d.phone[i] # NoText /\ i < n THEN c.phoneLabels[i + 1] ELSE NoText)
                     \in LabelNames \cup {NoText}
    <3>1. i < n => i + 1 \in 1..n
      BY <1>2 DEF Slots
    <3> QED BY <1>5, <3>1
  <2> QED BY <1>6, <2>1
<1>9. a \in Addressees
  <2>1. DecodePalmText(d.rest) \in Seq(Nat)
    BY <1>1, TextRoundTrip
  <2>2. a \in [numbers : Seq({NoText} \cup STRING), label : [Slots -> LabelNames \cup {NoText}],
               showPhone : Slots, rest : Seq(Nat)]
    BY <1>1, <1>6, <1>7, <1>8, <2>1
  <2>3. \A k \in 1..Len(a.numbers) : a.numbers[k] # NoText
    BY <1>2, <1>7
  <2> QED BY <1>7, <1>8, <2>2, <2>3 DEF Addressees, AnyAddressees
<1>10. ASSUME NoGap(d.phone), NEW i \in Slots
       PROVE  /\ i < n <=> d.phone[i] # NoText
              /\ d.phone[i] # NoText =>
                   /\ a.numbers[i + 1] = d.phone[i]
                   /\ a.label[i] = DefaultPhoneLabels[1 + d.phoneLabel[i]]
  <2>1. i < n <=> d.phone[i] # NoText
    BY <1>2, <1>10
  <2>2. ASSUME d.phone[i] # NoText
        PROVE  /\ a.numbers[i + 1] = d.phone[i]
               /\ a.label[i] = DefaultPhoneLabels[1 + d.phoneLabel[i]]
    <3>1. i + 1 \in 1..n /\ (i + 1) - 1 = i
      BY <1>2, <2>1, <2>2 DEF Slots
    <3>2. full[i + 1] = i
      BY <1>2, <1>10, <3>1
    <3>3. a.label[i] = c.phoneLabels[i + 1]
      BY <1>6, <2>1, <2>2
    <3>4. c.phoneLabels[i + 1] = DefaultPhoneLabels[1 + d.phoneLabel[full[i + 1]]]
      BY <1>3, <3>1
    <3> QED BY <1>7, <3>1, <3>2, <3>3, <3>4
  <2> QED BY <2>1, <2>2
<1> QED BY <1>6, <1>7, <1>9, <1>10 DEF a, c

LEMMA ContactWritten ==
    ASSUME NEW a \in AnyAddressees
    PROVE  LET d == EncodeContact(FromAddressee(a))
           IN  /\ d \in Addresses /\ NoGap(d.phone)
               /\ d.showPhone = a.showPhone /\ d.rest = EncodePalmText(a.rest)
               /\ \A i \in Slots :
                    /\ d.phone[i] # NoText <=> i < Len(a.numbers)
                    /\ i < Len(a.numbers) => d.phone[i] = a.numbers[i + 1]
                    /\ d.phoneLabel[i] = LabelStringToIndex(a.label[i])
<1> DEFINE c == FromAddressee(a)
           d == EncodeContact(c)
           n == Len(a.numbers)
<1>1. /\ a.numbers \in Seq({NoText} \cup STRING) /\ n \in Nat
      /\ a.showPhone \in Slots /\ a.rest \in Seq(Nat)
      /\ \A k \in 1..n : a.numbers[k] # NoText /\ a.numbers[k] \in {NoText} \cup STRING
      /\ a.label \in [Slots -> LabelNames \cup {NoText}]
  <2>1. a.numbers \in Seq({NoText} \cup STRING) /\ \A k \in 1..n : a.numbers[k] # NoText
    BY DEF AnyAddressees
  <2>2. n \in Nat /\ \A k \in 1..n : a.numbers[k] \in {NoText} \cup STRING
    BY <2>1, Elements
  <2> QED BY <2>1, <2>2 DEF AnyAddressees
<1>2. /\ c.phone = [i \in Slots |-> IF i < n THEN a.numbers[i + 1] ELSE NoText]
      /\ c.phoneLabels = [k \in 1..5 |-> DefaultPhoneLabels[1 + LabelStringToIndex(a.label[k - 1])]]
      /\ c.showPhone = a.showPhone /\ c.rest = a.rest
  BY DEF FromAddressee
<1> HIDE DEF c, n
<1>3. Len(c.phoneLabels) = 5 /\ \A k \in 1..5 : c.phoneLabels[k] \in LabelNames
  <2> DEFINE f == [k \in 1..5 |-> DefaultPhoneLabels[1 + LabelStringToIndex(a.label[k - 1])]]
  <2>1. \A k \in 1..5 : DefaultPhoneLabels[1 + LabelStringToIndex(a.label[k - 1])] \in LabelNames
    BY Labels
  <2>2. DOMAIN f = 1..5 /\ f = [k \in 1..5 |-> f[k]] /\ \A k \in 1..5 : f[k] \in LabelNames
    BY <2>1
  <2> HIDE DEF f
  <2>3. f \in Seq(LabelNames) /\ Len(f) = 5
    BY <2>2, IsSequence
  <2> QED BY <1>2, <2>2, <2>3 DEF f
<1>4. /\ d.phone = c.phone /\ d.showPhone = c.showPhone /\ d.rest = EncodePalmText(c.rest)
      /\ d.phoneLabel = [i \in Slots |-> IF i < Len(c.phoneLabels)
                                         THEN LabelStringToIndex(c.phoneLabels[i + 1]) ELSE i]
      /\ d = [phone |-> d.phone, phoneLabel |-> d.phoneLabel, showPhone |-> d.showPhone,
              rest |-> d.rest]
  BY DEF EncodeContact
<1> HIDE DEF d
<1>5. ASSUME NEW i \in Slots
      PROVE  d.phoneLabel[i] = LabelStringToIndex(a.label[i]) /\ d.phoneLabel[i] \in 0..7
  <2>1. i < 5 /\ i + 1 \in 1..5 /\ (i + 1) - 1 = i
    BY DEF Slots
  <2>2. c.phoneLabels[i + 1] = DefaultPhoneLabels[1 + LabelStringToIndex(a.label[i])]
    BY <1>2, <2>1
  <2>3. d.phoneLabel[i] = LabelStringToIndex(c.phoneLabels[i + 1])
    BY <1>3, <1>4, <2>1
  <2> QED BY <2>2, <2>3, Labels
<1>6. ASSUME NEW i \in Slots
      PROVE  /\ d.phone[i] # NoText <=> i < n
             /\ i < n => d.phone[i] = a.numbers[i + 1]
             /\ d.phone[i] \in {NoText} \cup STRING
  <2>1. d.phone[i] = IF i < n THEN a.numbers[i + 1] ELSE NoText
    BY <1>2, <1>4
  <2>2. i < n => i + 1 \in 1..n
    BY <1>1 DEF Slots
  <2> QED BY <1>1, <2>1, <2>2
<1>7. NoGap(d.phone)
  <2>1. \A i, j \in Slots : i < j /\ j < n => i < n
    BY <1>1 DEF Slots
  <2> QED BY <1>6, <2>1 DEF NoGap
<1>8. d \in Addresses
  <2>1. d.phone \in [Slots -> {NoText} \cup STRING]
    BY <1>2, <1>4, <1>6
  <2>2. d.phoneLabel \in [Slots -> 0..7]
    BY <1>4, <1>5
  <2>3. d.rest \in Seq(Bytes)
    BY <1>1, <1>2, <1>4, TextRoundTrip
  <2> QED BY <1>1, <1>2, <1>4, <2>1, <2>2, <2>3 DEF Addresses
<1> QED BY <1>2, <1>4, <1>5, <1>6, <1>7, <1>8 DEF d, c, n

(* There and back: everything, but for labels of empty slots.              *)
LEMMA ContactRoundTrip ==
    ASSUME NEW d \in Addresses, NoGap(d.phone)
    PROVE  LET b == EncodeContact(FromAddressee(ToAddressee(DecodeContact(d))))
           IN  /\ b \in Addresses
               /\ b.phone = d.phone /\ b.showPhone = d.showPhone /\ b.rest = d.rest
               /\ \A i \in Slots : b.phoneLabel[i] = IF d.phone[i] # NoText THEN d.phoneLabel[i]
                                                      ELSE OtherLabel
<1> DEFINE a == ToAddressee(DecodeContact(d))
           b == EncodeContact(FromAddressee(a))
<1>1. /\ a \in Addressees
      /\ a.showPhone = d.showPhone /\ a.rest = DecodePalmText(d.rest)
      /\ \A i \in Slots :
           /\ i < Len(a.numbers) <=> d.phone[i] # NoText
           /\ d.phone[i] # NoText =>
                /\ a.numbers[i + 1] = d.phone[i]
                /\ a.label[i] = DefaultPhoneLabels[1 + d.phoneLabel[i]]
  BY ContactRead
<1> HIDE DEF a
<1>2. /\ b \in Addresses
      /\ b.showPhone = a.showPhone /\ b.rest = EncodePalmText(a.rest)
      /\ \A i \in Slots :
           /\ b.phone[i] # NoText <=> i < Len(a.numbers)
           /\ i < Len(a.numbers) => b.phone[i] = a.numbers[i + 1]
           /\ b.phoneLabel[i] = LabelStringToIndex(a.label[i])
  BY <1>1, ContactWritten DEF Addressees
<1> HIDE DEF b
<1>3. /\ d.phone \in [Slots -> {NoText} \cup STRING] /\ d.phoneLabel \in [Slots -> 0..7]
      /\ d.rest \in Seq(Bytes)
      /\ b.phone \in [Slots -> {NoText} \cup STRING]
  BY <1>2 DEF Addresses
<1>4. b.phone = d.phone
  <2>1. \A i \in Slots : b.phone[i] = d.phone[i]
    BY <1>1, <1>2
  <2> QED BY <1>3, <2>1
<1>5. b.rest = d.rest
  BY <1>1, <1>2, <1>3, TextRoundTrip
<1>6. ASSUME NEW i \in Slots
      PROVE  b.phoneLabel[i] = IF d.phone[i] # NoText THEN d.phoneLabel[i] ELSE OtherLabel
  <2>1. CASE d.phone[i] # NoText
    <3>1. d.phoneLabel[i] \in 0..7 /\ a.label[i] = DefaultPhoneLabels[1 + d.phoneLabel[i]]
      BY <1>1, <1>3, <2>1
    <3>2. LabelStringToIndex(a.label[i]) = d.phoneLabel[i]
      BY <3>1, Labels
    <3> QED BY <1>2, <2>1, <3>2
  <2>2. CASE d.phone[i] = NoText
    <3>1. a.label[i] = NoText
      BY <1>1, <2>2 DEF Addressees
    <3> QED BY <1>2, <2>2, <3>1, Labels
  <2> QED BY <2>1, <2>2
<1> QED BY <1>1, <1>2, <1>4, <1>5, <1>6 DEF a, b

(* Why labels need numbers: one that is stashed for a place behind the     *)
(* last number, as where the desktop user removed a number, is written to  *)
(* the first record and gone from the second.                              *)
LEMMA LabelUnsettled ==
    ASSUME NEW a \in AnyAddressees, NEW i \in Slots, ~(i < Len(a.numbers)), a.label[i] = "Fax"
    PROVE  LET d == EncodeContact(FromAddressee(a))
               b == EncodeContact(FromAddressee(ToAddressee(DecodeContact(d))))
           IN  d.phoneLabel[i] # b.phoneLabel[i]
<1> DEFINE d == EncodeContact(FromAddressee(a))
           b == EncodeContact(FromAddressee(ToAddressee(DecodeContact(d))))
<1>0. d = EncodeContact(FromAddressee(a))
  OBVIOUS
<1> HIDE DEF d
<1>1. /\ d \in Addresses /\ NoGap(d.phone)
      /\ d.phone[i] = NoText /\ d.phoneLabel[i] = LabelStringToIndex("Fax")
  BY <1>0, ContactWritten
<1>2. b.phoneLabel[i] = OtherLabel
  BY <1>1, ContactRoundTrip
<1>3. LabelStringToIndex("Fax") = 2
  <2>1. DefaultPhoneLabels[1 + 2] = "Fax"
    BY DEF DefaultPhoneLabels
  <2> QED BY <2>1, Labels
<1> QED BY <1>1, <1>2, <1>3 DEF OtherLabel, d

-----------------------------------------------------------------------------
(* The codecs of all kinds.                                                *)

PimKinds == {"datebook", "contact", "todo"}

(* The fields that say something, but for those of the alarm and the week  *)
(* start.                                                                  *)
SameFields(x, y) ==
    /\ x.untimed = y.untimed /\ x.begin = y.begin /\ x.end = y.end /\ x.alarm = y.alarm
    /\ x.repeatType = y.repeatType /\ x.repeatFrequency = y.repeatFrequency
    /\ x.repeatDays = y.repeatDays /\ x.repeatEnd = y.repeatEnd
    /\ x.exceptions = y.exceptions /\ x.rest = y.rest

CarriedAppointment(d) ==
    /\ d.repeatType # "monthlyByDay"
    /\ d.alarm => d.advance > 0
    /\ WeekMatters(d) => d.repeatWeekstart = 0
    /\ d.repeatType = "none" => d.exceptions = {}

LEMMA AppointmentFields ==
    ASSUME NEW x \in Appointments, NEW y \in Appointments
    PROVE  /\ [x EXCEPT !.advance = 0, !.units = 0, !.repeatWeekstart = 0]
                = [y EXCEPT !.advance = 0, !.units = 0, !.repeatWeekstart = 0]
                <=> SameFields(x, y)
           /\ /\ SameFields(x, y) /\ x.advance = y.advance /\ x.units = y.units
              /\ x.repeatWeekstart = y.repeatWeekstart
              => x = y
<1>1. x \in AppointmentRecords /\ y \in AppointmentRecords
  BY DEF Appointments, AppointmentRecords
<1> DEFINE p == [x EXCEPT !.advance = 0, !.units = 0, !.repeatWeekstart = 0]
           q == [y EXCEPT !.advance = 0, !.units = 0, !.repeatWeekstart = 0]
<1>2. ASSUME p = q
      PROVE  SameFields(x, y)
  <2>1. /\ p.untimed = x.untimed /\ p.begin = x.begin /\ p.end = x.end /\ p.alarm = x.alarm
        /\ p.repeatType = x.repeatType /\ p.repeatFrequency = x.repeatFrequency
        /\ p.repeatDays = x.repeatDays /\ p.repeatEnd = x.repeatEnd
        /\ p.exceptions = x.exceptions /\ p.rest = x.rest
    BY <1>1 DEF AppointmentRecords
  <2>2. /\ q.untimed = y.untimed /\ q.begin = y.begin /\ q.end = y.end /\ q.alarm = y.alarm
        /\ q.repeatType = y.repeatType /\ q.repeatFrequency = y.repeatFrequency
        /\ q.repeatDays = y.repeatDays /\ q.repeatEnd = y.repeatEnd
        /\ q.exceptions = y.exceptions /\ q.rest = y.rest
    BY <1>1 DEF AppointmentRecords
  <2> HIDE DEF p, q
  <2> QED BY <1>2, <2>1, <2>2 DEF SameFields
<1>3. ASSUME SameFields(x, y)
      PROVE  p = q
  BY <1>1, <1>3 DEF SameFields, AppointmentRecords
<1>4. ASSUME SameFields(x, y), x.advance = y.advance, x.units = y.units,
             x.repeatWeekstart = y.repeatWeekstart
      PROVE  x = y
  BY <1>1, <1>4 DEF SameFields, AppointmentRecords
<1> QED BY <1>2, <1>3, <1>4

LEMMA Kind ==
    /\ \A d : Decode("datebook", d) = DecodeAppointment(d)
    /\ \A d : Decode("contact", d) = ToAddressee(DecodeContact(d))
    /\ \A d : Decode("todo", d) = ToKCalTodo(DecodeTodo(d))
    /\ \A c : Encode("datebook", c) = EncodeAppointment(c)
    /\ \A c : Encode("contact", c) = EncodeContact(FromAddressee(c))
    /\ \A c : Encode("todo", c) = EncodeTodo(FromKCalTodo(c))
    /\ DataOf("datebook") = Appointments /\ DataOf("contact") = Addresses /\ DataOf("todo") = Todos
    /\ ContentsOf("datebook") = Events /\ ContentsOf("contact") = Addressees
    /\ ContentsOf("todo") = KTodos
    /\ \A d : Carried("datebook", d) <=> CarriedAppointment(d)
    /\ \A d : Carried("contact", d) <=> NoGap(d.phone)
    /\ \A d : Carried("todo", d) <=> d.indefinite \/ d.due # NoDate
    /\ \A x, y \in Addresses :
         SameMeaning("contact", x, y) <=>
           /\ x.phone = y.phone /\ x.showPhone = y.showPhone /\ x.rest = y.rest
           /\ \A i \in Slots : x.phone[i] # NoText => x.phoneLabel[i] = y.phoneLabel[i]
    /\ \A x, y \in Appointments :
         SameMeaning("datebook", x, y) <=>
           /\ SameFields(x, y)
           /\ WeekMatters(x) => x.repeatWeekstart = y.repeatWeekstart
           /\ x.alarm => PalmAlarmToVAlarm(x.advance, x.units)
                           = PalmAlarmToVAlarm(y.advance, y.units)
    /\ \A x, y : SameMeaning("todo", x, y) <=> x = y
<1>1. /\ \A d : Decode("datebook", d) = DecodeAppointment(d)
      /\ \A d : Decode("contact", d) = ToAddressee(DecodeContact(d))
      /\ \A d : Decode("todo", d) = ToKCalTodo(DecodeTodo(d))
  BY DEF Decode
<1>2. /\ \A c : Encode("datebook", c) = EncodeAppointment(c)
      /\ \A c : Encode("contact", c) = EncodeContact(FromAddressee(c))
      /\ \A c : Encode("todo", c) = EncodeTodo(FromKCalTodo(c))
  BY DEF Encode
<1>3. /\ DataOf("datebook") = Appointments /\ DataOf("contact") = Addresses
      /\ DataOf("todo") = Todos
      /\ ContentsOf("datebook") = Events /\ ContentsOf("contact") = Addressees
      /\ ContentsOf("todo") = KTodos
  BY DEF DataOf, ContentsOf
<1>4. /\ \A d : Carried("datebook", d) <=> CarriedAppointment(d)
      /\ \A d : Carried("contact", d) <=> NoGap(d.phone)
      /\ \A d : Carried("todo", d) <=> d.indefinite \/ d.due # NoDate
  BY DEF Carried, CarriedAppointment, NoGap
<1>5. ASSUME NEW x \in Addresses, NEW y \in Addresses
      PROVE  SameMeaning("contact", x, y) <=>
               /\ x.phone = y.phone /\ x.showPhone = y.showPhone /\ x.rest = y.rest
               /\ \A i \in Slots : x.phone[i] # NoText => x.phoneLabel[i] = y.phoneLabel[i]
  BY DEF SameMeaning
<1>6. ASSUME NEW x \in Appointments, NEW y \in Appointments
      PROVE  SameMeaning("datebook", x, y) <=>
               /\ SameFields(x, y)
               /\ WeekMatters(x) => x.repeatWeekstart = y.repeatWeekstart
               /\ x.alarm => PalmAlarmToVAlarm(x.advance, x.units)
                               = PalmAlarmToVAlarm(y.advance, y.units)
  <2>1. SameMeaning("datebook", x, y) <=>
          /\ x.alarm = y.alarm
          /\ x.alarm => PalmAlarmToVAlarm(x.advance, x.units)
                          = PalmAlarmToVAlarm(y.advance, y.units)
          /\ WeekMatters(x) => x.repeatWeekstart = y.repeatWeekstart
          /\ [x EXCEPT !.advance = 0, !.units = 0, !.repeatWeekstart = 0]
               = [y EXCEPT !.advance = 0, !.units = 0, !.repeatWeekstart = 0]
    BY DEF SameMeaning
  <2>2. [x EXCEPT !.advance = 0, !.units = 0, !.repeatWeekstart = 0]
          = [y EXCEPT !.advance = 0, !.units = 0, !.repeatWeekstart = 0]
          <=> SameFields(x, y)
    BY AppointmentFields
  <2>3. SameFields(x, y) => x.alarm = y.alarm
    BY DEF SameFields
  <2> QED BY <2>1, <2>2, <2>3
<1>7. \A x, y : SameMeaning("todo", x, y) <=> x = y
  BY DEF SameMeaning
<1> QED BY <1>1, <1>2, <1>3, <1>4, <1>5, <1>6, <1>7

LEMMA CodecTypes ==
    ASSUME NEW k \in PimKinds
    PROVE  /\ \A d \in DataOf(k) : Decode(k, d) \in ContentsOf(k)
           /\ \A c \in ContentsOf(k) : Encode(k, c) \in DataOf(k)
<1>1. CASE k = "datebook"
  <2>1. \A a \in Appointments : DecodeAppointment(a) \in Events
    BY AppointmentRead
  <2>2. \A e \in Events : EncodeAppointment(e) \in Appointments
    BY AppointmentWritten
  <2> QED BY <1>1, <2>1, <2>2, Kind
<1>2. CASE k = "contact"
  BY <1>2, Kind, ContactRead, ContactWritten DEF Addressees
<1>3. CASE k = "todo"
  BY <1>3, Kind, TodoRead, TodoWritten
<1> QED BY <1>1, <1>2, <1>3 DEF PimKinds

(* The codecs of appointments, contacts and to-dos, each way once: every   *)
(* record whose content they are meant to carry comes back with its        *)
(* meaning.                                                                *)
THEOREM CarriedComesBack ==
    ASSUME NEW k \in PimKinds, NEW d \in DataOf(k), Carried(k, d)
    PROVE  SameMeaning(k, Encode(k, Decode(k, d)), d)
<1> DEFINE b == Encode(k, Decode(k, d))
<1>1. CASE k = "datebook"
  <2>1. d \in Appointments /\ CarriedAppointment(d)
    BY <1>1, Kind
  <2>2. b = EncodeAppointment(DecodeAppointment(d))
    BY <1>1, Kind
  <2> HIDE DEF b
  <2>3. /\ b \in Appointments /\ SameFields(b, d)
        /\ b.alarm => PalmAlarmToVAlarm(b.advance, b.units) = PalmAlarmToVAlarm(d.advance, d.units)
        /\ b.repeatWeekstart = 0
    BY <2>1, <2>2, AppointmentRoundTrip DEF SameFields, CarriedAppointment
  <2>4. WeekMatters(b) => b.repeatWeekstart = d.repeatWeekstart
    BY <2>1, <2>3 DEF SameFields, CarriedAppointment, WeekMatters
  <2> QED BY <1>1, <2>1, <2>3, <2>4, Kind DEF b
<1>2. CASE k = "contact"
  <2>1. d \in Addresses /\ NoGap(d.phone)
    BY <1>2, Kind
  <2>2. b = EncodeContact(FromAddressee(ToAddressee(DecodeContact(d))))
    BY <1>2, Kind
  <2> HIDE DEF b
  <2>3. /\ b \in Addresses
        /\ b.phone = d.phone /\ b.showPhone = d.showPhone /\ b.rest = d.rest
        /\ \A i \in Slots : b.phone[i] # NoText => b.phoneLabel[i] = d.phoneLabel[i]
    BY <2>1, <2>2, ContactRoundTrip
  <2> QED BY <1>2, <2>1, <2>3, Kind DEF b
<1>3. CASE k = "todo"
  <2>1. d \in Todos /\ (d.indefinite \/ d.due # NoDate)
    BY <1>3, Kind
  <2>2. b = d
    BY <1>3, <2>1, Kind, TodoRoundTrip
  <2> QED BY <1>3, <2>2, Kind
<1> QED BY <1>1, <1>2, <1>3 DEF PimKinds

(* The codecs of appointments, contacts and to-dos: what is written for an *)
(* item of the desktop (alarms in whole minutes, labels with a number),    *)
(* read and written again, is the same record, also where the first        *)
(* writing lost something; but for exceptions whose rule was lost, which   *)
(* go with the second, and with that the record settles.                   *)
THEOREM CodecsSettle ==
    ASSUME NEW k \in PimKinds, NEW c \in ContentsOf(k)
    PROVE  Encode(k, Decode(k, Encode(k, c))) = Tidy(k, Encode(k, c))
<1> DEFINE d == Encode(k, c)
           b == Encode(k, Decode(k, d))
<1>1. CASE k = "datebook"
  <2> DEFINE seconds == IF c.alarm.set THEN c.alarm.before ELSE 0
  <2>1. c \in Events /\ d = EncodeAppointment(c) /\ b = EncodeAppointment(DecodeAppointment(d))
    BY <1>1, Kind
  <2> HIDE DEF d, b
  <2>2. /\ d \in Appointments /\ d.repeatType # "monthlyByDay" /\ (d.alarm => d.advance > 0)
        /\ d.repeatWeekstart = 0
        /\ d.alarm <=> c.alarm.set /\ c.alarm.before > 0
        /\ d.alarm => PalmAlarmToVAlarm(d.advance, d.units) = c.alarm.before
        /\ [alarm |-> d.alarm, advance |-> d.advance, units |-> d.units]
             = VAlarmToPalmAlarm(seconds)
    BY <2>1, AppointmentWritten
  <2> DEFINE t == Tidy(k, d)
  <2>6. t \in Appointments /\ t = [d EXCEPT !.exceptions = t.exceptions]
        /\ t.exceptions = IF d.repeatType = "none" THEN {} ELSE d.exceptions
    BY <1>1, <2>2 DEF Tidy, Appointments
  <2> HIDE DEF t
  <2>7. /\ t.untimed = d.untimed /\ t.begin = d.begin /\ t.end = d.end /\ t.alarm = d.alarm
        /\ t.repeatType = d.repeatType /\ t.repeatFrequency = d.repeatFrequency
        /\ t.repeatDays = d.repeatDays /\ t.repeatEnd = d.repeatEnd /\ t.rest = d.rest
        /\ t.repeatWeekstart = 0 /\ t.advance = d.advance /\ t.units = d.units
    BY <2>2, <2>6 DEF Appointments
  <2>3. /\ b \in Appointments /\ SameFields(b, t) /\ b.repeatWeekstart = 0
        /\ [alarm |-> b.alarm, advance |-> b.advance, units |-> b.units]
             = VAlarmToPalmAlarm(IF d.alarm THEN PalmAlarmToVAlarm(d.advance, d.units) ELSE 0)
    BY <2>1, <2>2, <2>6, <2>7, AppointmentRoundTrip DEF SameFields
  <2>4. VAlarmToPalmAlarm(IF d.alarm THEN PalmAlarmToVAlarm(d.advance, d.units) ELSE 0)
          = VAlarmToPalmAlarm(seconds)
    <3>1. CASE d.alarm
      BY <2>2, <3>1
    <3>2. CASE ~d.alarm
      <4>1. seconds \in Nat /\ ~(seconds > 0)
        BY <2>1, <2>2, <3>2 DEF Events
      <4>2. seconds = 0
        <5> HIDE DEF seconds
        <5> QED BY <4>1
      <4> HIDE DEF seconds
      <4> QED BY <3>2, <4>2
    <3> QED BY <3>1, <3>2
  <2>5. b.advance = d.advance /\ b.units = d.units
    <3> DEFINE p == [alarm |-> b.alarm, advance |-> b.advance, units |-> b.units]
               q == [alarm |-> d.alarm, advance |-> d.advance, units |-> d.units]
    <3>1. p = q
      BY <2>2, <2>3, <2>4
    <3>2. p.advance = b.advance /\ p.units = b.units /\ q.advance = d.advance /\ q.units = d.units
      OBVIOUS
    <3> HIDE DEF p, q
    <3> QED BY <3>1, <3>2
  <2> QED BY <2>3, <2>5, <2>6, <2>7, AppointmentFields DEF b, d, t
<1>2. CASE k = "contact"
  <2>1. /\ c \in Addressees /\ d = EncodeContact(FromAddressee(c))
        /\ b = EncodeContact(FromAddressee(ToAddressee(DecodeContact(d))))
    BY <1>2, Kind
  <2> HIDE DEF d, b
  <2>2. /\ d \in Addresses /\ NoGap(d.phone)
        /\ \A i \in Slots :
             /\ d.phone[i] # NoText <=> i < Len(c.numbers)
             /\ d.phoneLabel[i] = LabelStringToIndex(c.label[i])
    BY <2>1, ContactWritten DEF Addressees
  <2>3. /\ b \in Addresses
        /\ b.phone = d.phone /\ b.showPhone = d.showPhone /\ b.rest = d.rest
        /\ \A i \in Slots : b.phoneLabel[i] = IF d.phone[i] # NoText THEN d.phoneLabel[i]
                                               ELSE OtherLabel
    BY <2>1, <2>2, ContactRoundTrip
  <2>4. ASSUME NEW i \in Slots, d.phone[i] = NoText
        PROVE  d.phoneLabel[i] = OtherLabel
    <3>1. c.label[i] = NoText
      BY <2>1, <2>2, <2>4 DEF Addressees
    <3> QED BY <2>2, <3>1, Labels
  <2>5. /\ b \in [phone : [Slots -> {NoText} \cup STRING], phoneLabel : [Slots -> 0..7],
                  showPhone : Slots, rest : Seq(Bytes)]
        /\ d \in [phone : [Slots -> {NoText} \cup STRING], phoneLabel : [Slots -> 0..7],
                  showPhone : Slots, rest : Seq(Bytes)]
    BY <2>2, <2>3 DEF Addresses
  <2>6. b.phoneLabel = d.phoneLabel
    <3>1. \A i \in Slots : b.phoneLabel[i] = d.phoneLabel[i]
      BY <2>3, <2>4
    <3>2. b.phoneLabel \in [Slots -> 0..7] /\ d.phoneLabel \in [Slots -> 0..7]
      BY <2>5
    <3> QED BY <3>1, <3>2
  <2>7. b = d
    BY <2>3, <2>5, <2>6
  <2> QED BY <1>2, <2>7 DEF b, d, Tidy
<1>3. CASE k = "todo"
  <2>1. c \in KTodos /\ d = EncodeTodo(FromKCalTodo(c))
        /\ b = EncodeTodo(FromKCalTodo(ToKCalTodo(DecodeTodo(d))))
    BY <1>3, Kind
  <2> HIDE DEF d, b
  <2>2. /\ d \in Todos
        /\ d = [indefinite |-> c.due = NoDate, due |-> c.due,
                priority |-> Bound(1, c.priority, 5), complete |-> c.complete,
                rest |-> EncodePalmText(c.rest)]
    BY <2>1, TodoWritten
  <2>3. d.indefinite \/ d.due # NoDate
    <3>1. d.indefinite = (c.due = NoDate) /\ d.due = c.due
      BY <2>2, Zenon
    <3> QED BY <3>1
  <2>4. b = d
    BY <2>1, <2>2, <2>3, TodoRoundTrip
  <2> QED BY <1>3, <2>4 DEF b, d, Tidy
<1> QED BY <1>1, <1>2, <1>3 DEF PimKinds

(* The meaning is an equivalence, and what is carried has what means the   *)
(* same carried.                                                           *)
LEMMA Meaning ==
    ASSUME NEW k \in PimKinds
    PROVE  /\ \A x \in DataOf(k) : SameMeaning(k, x, x)
           /\ \A x, y, z \in DataOf(k) :
                SameMeaning(k, x, y) /\ SameMeaning(k, y, z) => SameMeaning(k, x, z)
           /\ \A x, y \in DataOf(k) :
                SameMeaning(k, x, y) /\ Carried(k, y) => Carried(k, x)
<1>1. CASE k = "datebook"
  <2>1. ASSUME NEW x \in Appointments
        PROVE  SameMeaning("datebook", x, x)
    BY Kind DEF SameFields
  <2>2. ASSUME NEW x \in Appointments, NEW y \in Appointments, NEW z \in Appointments,
               SameMeaning("datebook", x, y), SameMeaning("datebook", y, z)
        PROVE  SameMeaning("datebook", x, z)
    <3>1. SameFields(x, y) /\ SameFields(y, z)
      BY <2>2, Kind
    <3>2. x.alarm => PalmAlarmToVAlarm(x.advance, x.units) = PalmAlarmToVAlarm(z.advance, z.units)
      BY <2>2, <3>1, Kind DEF SameFields
    <3>3. SameFields(x, z)
      BY <3>1 DEF SameFields
    <3>4. WeekMatters(x) => x.repeatWeekstart = z.repeatWeekstart
      BY <2>2, <3>1, Kind DEF SameFields, WeekMatters
    <3> QED BY <3>2, <3>3, <3>4, Kind
  <2>3. ASSUME NEW x \in Appointments, NEW y \in Appointments,
               SameMeaning("datebook", x, y), Carried("datebook", y)
        PROVE  Carried("datebook", x)
    <3>1. /\ x.repeatType = y.repeatType /\ x.alarm = y.alarm
          /\ x.repeatFrequency = y.repeatFrequency /\ x.exceptions = y.exceptions
          /\ WeekMatters(x) => x.repeatWeekstart = y.repeatWeekstart
          /\ x.alarm => PalmAlarmToVAlarm(x.advance, x.units)
                          = PalmAlarmToVAlarm(y.advance, y.units)
      BY <2>3, Kind DEF SameFields
    <3>2. CarriedAppointment(y)
      BY <2>3, Kind
    <3>3. x.alarm => x.advance > 0
      <4>1. /\ x.advance \in Nat /\ x.units \in 0..2 /\ y.advance \in Nat /\ y.units \in 0..2
        BY DEF Appointments
      <4>2. \A u \in 0..2 : UnitSeconds(u) \in Nat /\ UnitSeconds(u) > 0
        BY DEF UnitSeconds
      <4>3. \A m, n \in Nat : m > 0 /\ n > 0 => m * n > 0
        OBVIOUS
      <4>4. \A n \in Nat : 0 * n = 0
        OBVIOUS
      <4>5. y.alarm => PalmAlarmToVAlarm(y.advance, y.units) > 0
        BY <3>2, <4>1, <4>2, <4>3 DEF PalmAlarmToVAlarm, CarriedAppointment
      <4>6. x.advance = 0 => PalmAlarmToVAlarm(x.advance, x.units) = 0
        BY <4>1, <4>2, <4>4 DEF PalmAlarmToVAlarm
      <4> QED BY <3>1, <4>1, <4>5, <4>6
    <3>4. CarriedAppointment(x)
      BY <3>1, <3>2, <3>3 DEF CarriedAppointment, WeekMatters
    <3> QED BY <3>4, Kind
  <2> QED BY <1>1, <2>1, <2>2, <2>3, Kind
<1>2. CASE k = "contact"
  <2>1. ASSUME NEW x \in Addresses
        PROVE  SameMeaning("contact", x, x)
    BY Kind
  <2>2. ASSUME NEW x \in Addresses, NEW y \in Addresses, NEW z \in Addresses,
               SameMeaning("contact", x, y), SameMeaning("contact", y, z)
        PROVE  SameMeaning("contact", x, z)
    BY <2>2, Kind
  <2>3. ASSUME NEW x \in Addresses, NEW y \in Addresses,
               SameMeaning("contact", x, y), Carried("contact", y)
        PROVE  Carried("contact", x)
    BY <2>3, Kind
  <2> QED BY <1>2, <2>1, <2>2, <2>3, Kind
<1>3. CASE k = "todo"
  BY <1>3, Kind
<1> QED BY <1>1, <1>2, <1>3 DEF PimKinds

-----------------------------------------------------------------------------
(* The item and the record.                                                *)

RecordsOf(k) ==
    [present : {TRUE}, category : 0..15, secret : BOOLEAN, data : DataOf(k)]
ItemsOf(k) ==
    [present : {TRUE}, id : {NoRecordId, ZeroId} \cup RecordIds, slot : 0..15, private : BOOLEAN,
     content : ContentsOf(k)]

TripType ==
    /\ kind \in Kinds
    /\ device \in [RecordIds -> {NoRecord} \cup RecordsOf(kind)]
    /\ item \in {NoItem} \cup ItemsOf(kind)
    /\ link \in BOOLEAN /\ settled \in SUBSET RecordIds /\ lost \in BOOLEAN
    /\ edits \in 0..MaxEdits
    /\ origin \in {NoRecord} \cup RecordsOf(kind)

(* The record a backend writes for an item.                                *)
WrittenOf(k, i) ==
    IF k = "datebook" THEN PalmRecord(i.slot, i.private, Encode(k, i.content))
    ELSE PalmRecord(0, FALSE, Encode(k, i.content))

(* An item without an id has no record, unless an answer was lost.         *)
Twinned == kind = "datebook" /\ lost

NewAlone ==
    item.present /\ item.id = NoRecordId => \/ Twinned
                                            \/ \A id \in RecordIds : ~device[id].present

OneRecord ==
    \/ Twinned
    \/ \A i, j \in RecordIds : device[i].present /\ device[j].present => i = j

(* What came from the Palm has its id and was never created anew.          *)
OriginHeld == origin.present => ~lost /\ (item.present => item.id \in RecordIds)

(* A record says what its origin says.                                     *)
SaysAs(k, r, o) ==
    /\ Carried(k, o.data) => SameMeaning(k, r.data, o.data)
    /\ k = "datebook" => r.category = o.category /\ r.secret = o.secret

(* The record, and the record that the item would be written as, say what  *)
(* their origin says.                                                      *)
OriginKept ==
    origin.present =>
      /\ \A id \in RecordIds : device[id].present => SaysAs(kind, device[id], origin)
      /\ item.present => SaysAs(kind, WrittenOf(kind, item), origin)

(* A record as a backend writes it: reading and writing give it back,      *)
(* without exceptions that have no rule.                                   *)
WrittenBack(k, r) ==
    /\ Encode(k, Decode(k, r.data)) = Tidy(k, r.data)
    /\ k # "datebook" => r.category = 0 /\ r.secret = FALSE

SettledAs(k, r, w) ==
    w.data \in {r.data, Tidy(k, r.data)} /\ w.category = r.category /\ w.secret = r.secret

(* What is settled was written back, and what holds it would be written    *)
(* as it is.                                                               *)
SettledKept ==
    \A id \in settled : device[id].present =>
      /\ WrittenBack(kind, device[id])
      /\ item.present /\ item.id = id => SettledAs(kind, device[id], WrittenOf(kind, item))

TripInv == TripType /\ OneRecord /\ NewAlone /\ OriginHeld /\ OriginKept /\ SettledKept

LEMMA RecordFields ==
    ASSUME NEW k \in PimKinds
    PROVE  /\ \A r \in {NoRecord} \cup RecordsOf(k) : r.present \in BOOLEAN
           /\ \A r \in {NoRecord} \cup RecordsOf(k) : r.present <=> r \in RecordsOf(k)
           /\ \A r \in RecordsOf(k) :
                /\ r = PalmRecord(r.category, r.secret, r.data)
                /\ r.category \in 0..15 /\ r.secret \in BOOLEAN /\ r.data \in DataOf(k)
           /\ \A c \in 0..15, s \in BOOLEAN, d \in DataOf(k) : PalmRecord(c, s, d) \in RecordsOf(k)
           /\ \A i \in {NoItem} \cup ItemsOf(k) : i.present \in BOOLEAN
           /\ \A i \in {NoItem} \cup ItemsOf(k) : i.present <=> i \in ItemsOf(k)
           /\ \A i \in ItemsOf(k) : /\ i.id \in {NoRecordId, ZeroId} \cup RecordIds /\ i.slot \in 0..15
                                     /\ i.private \in BOOLEAN /\ i.content \in ContentsOf(k)
<1>1. ASSUME NEW r \in RecordsOf(k)
      PROVE  /\ r = PalmRecord(r.category, r.secret, r.data)
             /\ r.category \in 0..15 /\ r.secret \in BOOLEAN /\ r.data \in DataOf(k)
             /\ r.present = TRUE
  <2>1. r.present = TRUE
    BY DEF RecordsOf
  <2>2. r = [present |-> r.present, category |-> r.category, secret |-> r.secret, data |-> r.data]
    BY DEF RecordsOf
  <2>3. r = PalmRecord(r.category, r.secret, r.data)
    BY <2>1, <2>2, Zenon DEF PalmRecord
  <2>4. r.category \in 0..15 /\ r.secret \in BOOLEAN /\ r.data \in DataOf(k)
    BY DEF RecordsOf
  <2> QED BY <2>1, <2>3, <2>4
<1>2. NoRecord.present = FALSE /\ NoItem.present = FALSE
  BY DEF NoRecord, NoItem
<1>3. \A i \in ItemsOf(k) : /\ i.id \in {NoRecordId, ZeroId} \cup RecordIds /\ i.slot \in 0..15
                             /\ i.private \in BOOLEAN /\ i.content \in ContentsOf(k)
                             /\ i.present = TRUE
  BY DEF ItemsOf
<1>5. ASSUME NEW c \in 0..15, NEW s \in BOOLEAN, NEW d \in DataOf(k)
      PROVE  PalmRecord(c, s, d) \in RecordsOf(k)
  BY DEF PalmRecord, RecordsOf
<1>6. ASSUME NEW r \in {NoRecord} \cup RecordsOf(k)
      PROVE  r.present \in BOOLEAN /\ (r.present <=> r \in RecordsOf(k))
  <2>1. CASE r = NoRecord
    <3>1. r \notin RecordsOf(k)
      BY <1>1, <1>2, <2>1
    <3> QED BY <1>2, <2>1, <3>1
  <2>2. CASE r \in RecordsOf(k)
    BY <1>1, <2>2
  <2> QED BY <2>1, <2>2
<1>7. ASSUME NEW i \in {NoItem} \cup ItemsOf(k)
      PROVE  i.present \in BOOLEAN /\ (i.present <=> i \in ItemsOf(k))
  <2>1. CASE i = NoItem
    <3>1. i \notin ItemsOf(k)
      BY <1>2, <1>3, <2>1
    <3> QED BY <1>2, <2>1, <3>1
  <2>2. CASE i \in ItemsOf(k)
    BY <1>3, <2>2
  <2> QED BY <2>1, <2>2
<1>8. \A r \in {NoRecord} \cup RecordsOf(k) :
        r.present \in BOOLEAN /\ (r.present <=> r \in RecordsOf(k))
  BY <1>6
<1>9. \A i \in {NoItem} \cup ItemsOf(k) : i.present \in BOOLEAN /\ (i.present <=> i \in ItemsOf(k))
  BY <1>7
<1> QED BY <1>1, <1>3, <1>5, <1>8, <1>9

(* What is written is of its kind, and settles.                            *)
LEMMA WrittenIs ==
    ASSUME NEW k \in PimKinds, NEW i \in ItemsOf(k)
    PROVE  /\ WrittenOf(k, i) \in RecordsOf(k)
           /\ WrittenBack(k, WrittenOf(k, i))
           /\ WrittenOf(k, i).data = Encode(k, i.content)
<1>1. i.slot \in 0..15 /\ i.private \in BOOLEAN /\ i.content \in ContentsOf(k)
  BY RecordFields
<1>2. Encode(k, i.content) \in DataOf(k)
  BY <1>1, CodecTypes
<1>3. /\ WrittenOf(k, i).data = Encode(k, i.content)
      /\ k # "datebook" => WrittenOf(k, i).category = 0 /\ WrittenOf(k, i).secret = FALSE
  <2>1. /\ PalmRecord(i.slot, i.private, Encode(k, i.content)).data = Encode(k, i.content)
        /\ PalmRecord(0, FALSE, Encode(k, i.content)).data = Encode(k, i.content)
        /\ PalmRecord(0, FALSE, Encode(k, i.content)).category = 0
        /\ PalmRecord(0, FALSE, Encode(k, i.content)).secret = FALSE
    BY Zenon DEF PalmRecord
  <2>2. CASE k = "datebook"
    BY <2>1, <2>2, Zenon DEF WrittenOf
  <2>3. CASE k # "datebook"
    BY <2>1, <2>3, Zenon DEF WrittenOf
  <2> QED BY <2>2, <2>3, Zenon
<1>4. WrittenOf(k, i) \in RecordsOf(k)
  <2>1. 0 \in 0..15 /\ FALSE \in BOOLEAN
    OBVIOUS
  <2> QED BY <1>1, <1>2, <2>1, RecordFields DEF WrittenOf
<1>5. WrittenBack(k, WrittenOf(k, i))
  BY <1>1, <1>3, CodecsSettle DEF WrittenBack
<1> QED BY <1>3, <1>4, <1>5

(* The item that a backend reads from a record.                            *)
ReadOf(k, r, id) ==
    [present |-> TRUE, id |-> id,
     slot |-> IF k = "datebook" THEN r.category ELSE 0,
     private |-> IF k = "datebook" THEN r.secret ELSE FALSE,
     content |-> Decode(k, r.data)]

(* It is written as a record that says what the one it was read from says; *)
(* and settles that record, if that was written back.                      *)
LEMMA ReadIs ==
    ASSUME NEW k \in PimKinds, NEW r \in RecordsOf(k), NEW id \in RecordIds
    PROVE  /\ ReadOf(k, r, id) \in ItemsOf(k)
           /\ ReadOf(k, r, id).present /\ ReadOf(k, r, id).id = id
           /\ \A o \in RecordsOf(k) :
                SaysAs(k, r, o) => SaysAs(k, WrittenOf(k, ReadOf(k, r, id)), o)
           /\ WrittenBack(k, r) => SettledAs(k, r, WrittenOf(k, ReadOf(k, r, id)))
<1> DEFINE i == ReadOf(k, r, id)
<1>0. i = [present |-> TRUE, id |-> id,
           slot |-> IF k = "datebook" THEN r.category ELSE 0,
           private |-> IF k = "datebook" THEN r.secret ELSE FALSE,
           content |-> Decode(k, r.data)]
  BY DEF ReadOf
<1> HIDE DEF i
<1>1. /\ r = PalmRecord(r.category, r.secret, r.data)
      /\ r.category \in 0..15 /\ r.secret \in BOOLEAN /\ r.data \in DataOf(k)
  BY RecordFields
<1>2. Decode(k, r.data) \in ContentsOf(k)
  BY <1>1, CodecTypes
<1>3. /\ i.present = TRUE /\ i.id = id /\ i.content = Decode(k, r.data)
      /\ k = "datebook" => i.slot = r.category /\ i.private = r.secret
  BY <1>0, Zenon
<1>4. i \in ItemsOf(k)
  <2>1. 0 \in 0..15 /\ FALSE \in BOOLEAN
    OBVIOUS
  <2>2. \A sl \in 0..15, pr \in BOOLEAN, c \in ContentsOf(k) :
          [present |-> TRUE, id |-> id, slot |-> sl, private |-> pr, content |-> c] \in ItemsOf(k)
    BY DEF ItemsOf
  <2>3. (IF k = "datebook" THEN r.category ELSE 0) \in 0..15
    BY <1>1
  <2>4. (IF k = "datebook" THEN r.secret ELSE FALSE) \in BOOLEAN
    BY <1>1
  <2> QED BY <1>0, <1>2, <2>2, <2>3, <2>4, Zenon
<1>5. WrittenOf(k, i).data = Encode(k, Decode(k, r.data))
  BY <1>3, <1>4, WrittenIs
<1>6. k = "datebook" => WrittenOf(k, i).category = r.category /\ WrittenOf(k, i).secret = r.secret
  <2>1. /\ PalmRecord(i.slot, i.private, Encode(k, i.content)).category = i.slot
        /\ PalmRecord(i.slot, i.private, Encode(k, i.content)).secret = i.private
    BY Zenon DEF PalmRecord
  <2>2. k = "datebook" => WrittenOf(k, i) = PalmRecord(i.slot, i.private, Encode(k, i.content))
    BY Zenon DEF WrittenOf
  <2> QED BY <1>3, <2>1, <2>2, Zenon
<1>7. ASSUME NEW o \in RecordsOf(k), SaysAs(k, r, o)
      PROVE  SaysAs(k, WrittenOf(k, i), o)
  <2>1. o.data \in DataOf(k)
    BY RecordFields
  <2>2. ASSUME Carried(k, o.data)
        PROVE  SameMeaning(k, WrittenOf(k, i).data, o.data)
    <3>1. SameMeaning(k, r.data, o.data)
      BY <1>7, <2>2 DEF SaysAs
    <3>2. Carried(k, r.data)
      BY <1>1, <2>1, <2>2, <3>1, Meaning
    <3>3. SameMeaning(k, Encode(k, Decode(k, r.data)), r.data)
      BY <1>1, <3>2, CarriedComesBack
    <3>4. Encode(k, Decode(k, r.data)) \in DataOf(k)
      BY <1>2, CodecTypes
    <3> QED BY <1>1, <1>5, <2>1, <3>1, <3>3, <3>4, Meaning
  <2> QED BY <1>6, <1>7, <2>2 DEF SaysAs
<1>8. ASSUME WrittenBack(k, r)
      PROVE  SettledAs(k, r, WrittenOf(k, i))
  <2>1. WrittenOf(k, i).data = Tidy(k, r.data)
    BY <1>5, <1>8 DEF WrittenBack
  <2>2. WrittenOf(k, i).category = r.category /\ WrittenOf(k, i).secret = r.secret
    <3>1. CASE k = "datebook"
      BY <1>6, <3>1
    <3>2. CASE k # "datebook"
      <4>1. WrittenBack(k, WrittenOf(k, i))
        BY <1>4, WrittenIs
      <4> QED BY <1>8, <3>2, <4>1 DEF WrittenBack
    <3> QED BY <3>1, <3>2
  <2> QED BY <2>1, <2>2 DEF SettledAs
<1> QED BY <1>3, <1>4, <1>7, <1>8 DEF i

LEMMA TripStart == TripInit => TripInv
<1> SUFFICES ASSUME TripInit PROVE TripInv
  OBVIOUS
<1> USE RecordTripAssumption
<1>1. kind \in Kinds /\ kind \in PimKinds
  BY DEF TripInit, PimKinds
<1>2. link = TRUE /\ settled = {} /\ lost = FALSE /\ edits = 0 /\ edits \in 0..MaxEdits
  BY DEF TripInit
<1>3. PICK category \in Categories, secret \in BOOLEAN :
        \/ /\ \E data \in Contents[kind] :
                 device = [id \in RecordIds |-> IF id = 1 THEN PalmRecord(category, secret, data)
                                               ELSE NoRecord]
           /\ item = NoItem
           /\ origin = device[1]
        \/ /\ device = [id \in RecordIds |-> NoRecord]
           /\ \E content \in Desktop[kind] :
                 item = [present |-> TRUE, id |-> NoRecordId, slot |-> category,
                         private |-> secret, content |-> content]
           /\ origin = NoRecord
  BY DEF TripInit
<1>4. category \in 0..15
  BY <1>1
<1>5. NoRecord.present = FALSE /\ NoItem.present = FALSE
  BY DEF NoRecord, NoItem
<1>6. ASSUME NEW data \in Contents[kind],
             device = [id \in RecordIds |-> IF id = 1 THEN PalmRecord(category, secret, data)
                                           ELSE NoRecord],
             item = NoItem, origin = device[1]
      PROVE  TripInv
  <2>0. data \in DataOf(kind)
    BY <1>1
  <2> DEFINE r == PalmRecord(category, secret, data)
  <2>1. r \in RecordsOf(kind) /\ r.data = data /\ r.present
    <3>1. r.present = TRUE /\ r.data = data
      BY Zenon DEF PalmRecord
    <3>2. r \in RecordsOf(kind)
      BY <1>1, <1>4, <2>0, RecordFields
    <3> HIDE DEF r
    <3> QED BY <3>1, <3>2
  <2> HIDE DEF r
  <2>2. 1 \in RecordIds
    BY DEF RecordIds
  <2>3. device[1] = r /\ \A id \in RecordIds : id # 1 => device[id] = NoRecord
    BY <1>6, <2>2 DEF r
  <2>4. TripType
    BY <1>1, <1>2, <1>6, <2>1, <2>2, <2>3 DEF TripType, r
  <2>5. OneRecord
    BY <1>5, <2>3 DEF OneRecord
  <2>6. SaysAs(kind, r, r)
    BY <1>1, <2>0, <2>1, Meaning DEF SaysAs
  <2>7. OriginKept
    BY <1>5, <1>6, <2>3, <2>6 DEF OriginKept
  <2> QED
    BY <1>2, <1>5, <1>6, <2>4, <2>5, <2>7 DEF TripInv, NewAlone, OriginHeld, SettledKept
<1>7. ASSUME NEW content \in Desktop[kind],
             device = [id \in RecordIds |-> NoRecord],
             item = [present |-> TRUE, id |-> NoRecordId, slot |-> category,
                     private |-> secret, content |-> content],
             origin = NoRecord
      PROVE  TripInv
  <2>1. content \in ContentsOf(kind)
    BY <1>1
  <2>2. item \in ItemsOf(kind)
    BY <1>4, <1>7, <2>1 DEF ItemsOf
  <2>3. \A id \in RecordIds : device[id] = NoRecord
    BY <1>7
  <2>4. TripType
    BY <1>1, <1>2, <1>7, <2>2 DEF TripType
  <2> QED
    BY <1>2, <1>5, <1>7, <2>3, <2>4
    DEF TripInv, OneRecord, NewAlone, OriginHeld, OriginKept, SettledKept
<1> QED BY <1>3, <1>6, <1>7

LEMMA TypeGives ==
    ASSUME TripInv
    PROVE  /\ kind \in PimKinds /\ kind \in Kinds
           /\ \A id \in RecordIds : device[id] \in {NoRecord} \cup RecordsOf(kind)
           /\ \A id \in RecordIds : device[id].present => device[id] \in RecordsOf(kind)
           /\ item.present => item \in ItemsOf(kind)
           /\ origin.present => origin \in RecordsOf(kind)
<1>1. kind \in PimKinds /\ kind \in Kinds
  BY RecordTripAssumption DEF TripInv, TripType, PimKinds
<1>2. /\ \A id \in RecordIds : device[id] \in {NoRecord} \cup RecordsOf(kind)
      /\ item \in {NoItem} \cup ItemsOf(kind) /\ origin \in {NoRecord} \cup RecordsOf(kind)
  BY DEF TripInv, TripType
<1> QED BY <1>1, <1>2, RecordFields

(* A record is read into the item.                                         *)
LEMMA ReadKeeps ==
    ASSUME TripInv, NEW id \in RecordIds, device[id].present,
           item' = ReadOf(kind, device[id], id),
           UNCHANGED <<kind, device, link, origin, settled, lost, edits>>
    PROVE  TripInv'
<1>1. kind \in PimKinds /\ device[id] \in RecordsOf(kind)
  BY TypeGives
<1>2. /\ item' \in ItemsOf(kind) /\ item'.present /\ item'.id = id
      /\ \A o \in RecordsOf(kind) :
           SaysAs(kind, device[id], o) => SaysAs(kind, WrittenOf(kind, item'), o)
      /\ WrittenBack(kind, device[id])
           => SettledAs(kind, device[id], WrittenOf(kind, item'))
  BY <1>1, ReadIs
<1>3. TripType'
  BY <1>2 DEF TripInv, TripType
<1>4. OneRecord'
  BY DEF TripInv, OneRecord, Twinned
<1>5. NewAlone' /\ OriginHeld'
  <2>1. id # NoRecordId
    BY DEF RecordIds, NoRecordId
  <2> QED BY <1>2, <2>1 DEF TripInv, NewAlone, OriginHeld
<1>6. OriginKept'
  <2>1. ASSUME origin.present
        PROVE  /\ \A j \in RecordIds : device[j].present => SaysAs(kind, device[j], origin)
               /\ SaysAs(kind, WrittenOf(kind, item'), origin)
    <3>1. \A j \in RecordIds : device[j].present => SaysAs(kind, device[j], origin)
      BY <2>1 DEF TripInv, OriginKept
    <3>2. origin \in RecordsOf(kind)
      BY <2>1, TypeGives
    <3> QED BY <1>2, <3>1, <3>2
  <2> QED BY <2>1 DEF OriginKept
<1>7. SettledKept'
  <2>1. ASSUME NEW j \in settled, device[j].present
        PROVE  /\ WrittenBack(kind, device[j])
               /\ item'.id = j => SettledAs(kind, device[j], WrittenOf(kind, item'))
    <3>1. WrittenBack(kind, device[j])
      BY <2>1 DEF TripInv, SettledKept
    <3> QED BY <1>2, <3>1
  <2> QED BY <2>1 DEF SettledKept
<1> QED BY <1>3, <1>4, <1>5, <1>6, <1>7 DEF TripInv

(* The item is stored in the record of its id, or in a new one, and the    *)
(* item learns it or not.                                                  *)
LEMMA WriteKeeps ==
    ASSUME TripInv, item.present, NEW id \in RecordIds,
           NEW newId \in {NoRecordId, ZeroId} \cup RecordIds,
           device' = [device EXCEPT ![id] = WrittenOf(kind, item)],
           item' = [item EXCEPT !.id = newId],
           settled' \in {settled, settled \cup {id}}, lost' \in BOOLEAN,
           UNCHANGED <<kind, link, origin, edits>>,
           Twinned' \/ \A j \in RecordIds : device[j].present => j = id,
           newId \in RecordIds => newId = id,
           newId = NoRecordId => Twinned',
           origin.present => newId = id /\ ~lost'
    PROVE  TripInv'
<1> DEFINE r == WrittenOf(kind, item)
<1>1. kind \in PimKinds /\ item \in ItemsOf(kind)
  BY TypeGives
<1>2. /\ r \in RecordsOf(kind) /\ WrittenBack(kind, r) /\ r.present
      /\ device' = [device EXCEPT ![id] = r]
  <2>1. r \in RecordsOf(kind) /\ WrittenBack(kind, r)
    BY <1>1, WrittenIs
  <2> QED BY <1>1, <2>1, RecordFields
<1>3. /\ item' \in ItemsOf(kind) /\ item'.id = newId /\ item'.present
      /\ item'.slot = item.slot /\ item'.private = item.private /\ item'.content = item.content
  BY <1>1 DEF ItemsOf
<1>4. WrittenOf(kind, item') = r
  BY <1>3 DEF WrittenOf
<1> HIDE DEF r
<1>5. /\ device' \in [RecordIds -> {NoRecord} \cup RecordsOf(kind)]
      /\ device'[id] = r
      /\ \A j \in RecordIds : j # id => device'[j] = device[j]
  <2>1. device \in [RecordIds -> {NoRecord} \cup RecordsOf(kind)]
    BY DEF TripInv, TripType
  <2> QED BY <1>2, <2>1
<1>6. TripType'
  <2>1. settled' \in SUBSET RecordIds
    BY DEF TripInv, TripType
  <2> QED BY <1>3, <1>5, <2>1 DEF TripInv, TripType
<1>7. OneRecord'
  <2>1. CASE Twinned'
    BY <2>1 DEF OneRecord
  <2>2. CASE \A j \in RecordIds : device[j].present => j = id
    <3>1. \A j \in RecordIds : device'[j].present => j = id
      BY <1>5, <2>2
    <3> QED BY <3>1 DEF OneRecord
  <2> QED BY <2>1, <2>2
<1>8. NewAlone' /\ OriginHeld'
  BY <1>3 DEF NewAlone, OriginHeld
<1>9. OriginKept'
  <2>1. ASSUME origin.present
        PROVE  /\ SaysAs(kind, r, origin)
               /\ \A j \in RecordIds : device[j].present => SaysAs(kind, device[j], origin)
    BY <2>1 DEF TripInv, OriginKept, r
  <2>2. ASSUME origin.present, NEW j \in RecordIds, device'[j].present
        PROVE  SaysAs(kind, device'[j], origin)
    BY <1>5, <2>1, <2>2
  <2> QED BY <1>4, <2>1, <2>2 DEF OriginKept
<1>10. SettledKept'
  <2>1. SettledAs(kind, r, r)
    BY DEF SettledAs
  <2>2. ASSUME NEW j \in settled', device'[j].present
        PROVE  /\ WrittenBack(kind, device'[j])
               /\ item'.id = j => SettledAs(kind, device'[j], WrittenOf(kind, item'))
    <3>1. CASE j = id
      BY <1>2, <1>4, <1>5, <2>1, <3>1
    <3>2. CASE j # id
      <4>1. j \in settled /\ j \in RecordIds /\ device'[j] = device[j]
        BY <1>5, <1>6, <3>2 DEF TripType
      <4>2. WrittenBack(kind, device[j])
        BY <2>2, <4>1 DEF TripInv, SettledKept
      <4>3. item'.id # j
        BY <1>3, <3>2, <4>1
      <4> QED BY <4>1, <4>2, <4>3
    <3> QED BY <3>1, <3>2
  <2> QED BY <2>2 DEF SettledKept
<1> QED BY <1>6, <1>7, <1>8, <1>9, <1>10 DEF TripInv

(* The first id that is free.                                              *)
LEMMA NewIdIs ==
    ASSUME \E id \in RecordIds : ~device[id].present
    PROVE  NewId \in RecordIds /\ ~device[NewId].present
<1> DEFINE First(id) == ~device[id].present /\ \A j \in 1..(id - 1) : device[j].present
<1>1. \E id \in RecordIds : First(id)
  <2>1. CASE ~device[1].present
    <3>1. 1 \in RecordIds /\ First(1)
      BY <2>1 DEF RecordIds
    <3> QED BY <3>1
  <2>2. CASE device[1].present
    <3>1. 2 \in RecordIds /\ First(2)
      <4>1. \A j \in 1..(2 - 1) : j = 1
        OBVIOUS
      <4>2. ~device[2].present
        BY <2>2 DEF RecordIds
      <4> QED BY <2>2, <4>1, <4>2 DEF RecordIds
    <3> QED BY <3>1
  <2> QED BY <2>1, <2>2
<1>2. NewId = CHOOSE id \in RecordIds : First(id)
  BY DEF NewId
<1> HIDE DEF First
<1>3. NewId \in RecordIds /\ First(NewId)
  BY <1>1, <1>2
<1> QED BY <1>3 DEF First

LEMMA UpdateKeeps ==
    ASSUME TripInv, Update(WrittenOf(kind, item))
    PROVE  TripInv'
<1>1. item.present /\ item.id \in RecordIds /\ device[item.id].present /\ item' = item
  BY DEF Update
<1>2. item \in ItemsOf(kind) /\ item = [item EXCEPT !.id = item.id]
  BY <1>1, TypeGives DEF ItemsOf
<1>3. lost' = lost /\ UNCHANGED <<kind, link, origin, edits>>
  BY DEF Update, Written, Unanswered
<1>4. lost \in BOOLEAN /\ item.id # NoRecordId /\ (origin.present => ~lost)
  BY <1>1 DEF TripInv, TripType, OriginHeld, RecordIds, NoRecordId
<1>5. Twinned \/ \A j \in RecordIds : device[j].present => j = item.id
  BY <1>1 DEF TripInv, OneRecord
<1>6. Twinned' = Twinned
  BY <1>3 DEF Twinned
<1>7. CASE /\ device' = [device EXCEPT ![item.id] = WrittenOf(kind, item)]
           /\ settled' \in {settled, settled \cup {item.id}}
  <2> DEFINE id == item.id
  <2>1. /\ id \in RecordIds /\ id # NoRecordId /\ id \in {NoRecordId, ZeroId} \cup RecordIds
        /\ item' = [item EXCEPT !.id = id]
        /\ device' = [device EXCEPT ![id] = WrittenOf(kind, item)]
        /\ settled' \in {settled, settled \cup {id}}
    BY <1>1, <1>2, <1>4, <1>7
  <2>2. Twinned' \/ \A j \in RecordIds : device[j].present => j = id
    BY <1>5, <1>6
  <2>3. /\ UNCHANGED <<kind, link, origin, edits>> /\ lost' \in BOOLEAN
        /\ origin.present => ~lost'
    BY <1>3, <1>4
  <2> HIDE DEF id
  <2> QED BY <1>1, <2>1, <2>2, <2>3, WriteKeeps
<1>8. CASE UNCHANGED <<device, settled>>
  BY <1>1, <1>3, <1>8
  DEF TripInv, TripType, OneRecord, NewAlone, OriginHeld, OriginKept, SettledKept, Twinned
<1> QED BY <1>7, <1>8 DEF Update, Written, Unanswered, Stored

LEMMA CreateKeeps ==
    ASSUME TripInv, NEW noId, Create(WrittenOf(kind, item), noId),
           noId = IF kind = "datebook" THEN NoRecordId ELSE ZeroId
    PROVE  TripInv'
<1>0. kind \in PimKinds /\ item \in ItemsOf(kind) /\ lost \in BOOLEAN
  BY TypeGives DEF Create, TripInv, TripType
<1>1. item.present /\ item.id = NoRecordId /\ NewId \in RecordIds /\ ~device[NewId].present
  BY NewIdIs DEF Create
<1>2. NoRecordId \notin RecordIds /\ ZeroId \notin RecordIds /\ ZeroId # NoRecordId
  BY DEF RecordIds, NoRecordId, ZeroId
<1>3. ~origin.present
  BY <1>1, <1>2 DEF TripInv, OriginHeld
<1>4. Twinned \/ \A j \in RecordIds : ~device[j].present
  BY <1>1 DEF TripInv, NewAlone
<1>5. UNCHANGED <<kind, link, origin, edits>>
  BY DEF Create, Written, Unanswered
<1> HIDE DEF NewId
<1>6. CASE Written(NewId, WrittenOf(kind, item)) /\ item' = [item EXCEPT !.id = NewId]
  <2>1. /\ device' = [device EXCEPT ![NewId] = WrittenOf(kind, item)]
        /\ settled' = settled \cup {NewId} /\ lost' = lost
    BY <1>6 DEF Written, Stored
  <2>2. Twinned' \/ \A j \in RecordIds : device[j].present => j = NewId
    BY <1>4, <1>5, <2>1 DEF Twinned
  <2> QED BY <1>0, <1>1, <1>2, <1>3, <1>5, <1>6, <2>1, <2>2, WriteKeeps
<1>7. CASE /\ Unanswered(NewId, WrittenOf(kind, item))
           /\ lost' = (lost \/ device' # device)
           /\ item' = [item EXCEPT !.id = noId]
  <2>1. CASE device' = [device EXCEPT ![NewId] = WrittenOf(kind, item)]
    <3>1. WrittenOf(kind, item).present
      BY <1>0, WrittenIs, RecordFields
    <3>2. device \in [RecordIds -> {NoRecord} \cup RecordsOf(kind)]
      BY DEF TripInv, TripType
    <3>3. device'[NewId] = WrittenOf(kind, item)
      BY <1>1, <2>1, <3>2
    <3>4. device' # device
      BY <1>1, <3>1, <3>3
    <3>5. lost' = TRUE /\ settled' = settled
      BY <1>7, <3>4 DEF Unanswered
    <3>6. noId = NoRecordId => Twinned'
      BY <1>2, <1>5, <3>5 DEF Twinned
    <3>7. Twinned' \/ \A j \in RecordIds : device[j].present => j = NewId
      BY <1>4, <1>5, <3>5 DEF Twinned
    <3> QED BY <1>0, <1>1, <1>2, <1>3, <1>5, <1>7, <2>1, <3>5, <3>6, <3>7, WriteKeeps
  <2>2. CASE UNCHANGED device
    <3>1. lost' = lost /\ settled' = settled
      BY <1>0, <1>7, <2>2 DEF Unanswered
    <3>2. /\ item' \in ItemsOf(kind) /\ item'.id = noId /\ item'.present
      BY <1>0, <1>2, <1>7 DEF ItemsOf
    <3>3. TripType'
      BY <1>5, <2>2, <3>1, <3>2 DEF TripInv, TripType
    <3>4. OneRecord' /\ NewAlone' /\ OriginHeld' /\ OriginKept'
      BY <1>1, <1>3, <1>4, <1>5, <2>2, <3>1
      DEF TripInv, OneRecord, NewAlone, OriginHeld, OriginKept, Twinned
    <3>5. SettledKept'
      <4>1. \A j \in settled : item'.id # j
        BY <1>2, <3>2 DEF TripInv, TripType
      <4> QED BY <1>5, <2>2, <3>1, <4>1 DEF TripInv, SettledKept
    <3> QED BY <3>3, <3>4, <3>5 DEF TripInv
  <2> QED BY <1>7, <2>1, <2>2 DEF Unanswered, Stored
<1> QED BY <1>6, <1>7 DEF Create

LEMMA DeleteKeeps ==
    ASSUME TripInv, DeleteItems
    PROVE  TripInv'
<1>1. item.id \in RecordIds /\ item.present /\ item.id # NoRecordId
  BY DEF DeleteItems, RecordIds, NoRecordId
<1>2. NoRecord.present = FALSE /\ NoItem.present = FALSE
  BY DEF NoRecord, NoItem
<1>3. /\ device' = [device EXCEPT ![item.id] = NoRecord] /\ item' \in {item, NoItem}
      /\ settled' = settled \ {item.id}
      /\ kind' = kind /\ link' = link /\ origin' = origin /\ lost' = lost /\ edits' = edits
  BY DEF DeleteItems
<1>4. /\ device' \in [RecordIds -> {NoRecord} \cup RecordsOf(kind)]
      /\ \A j \in RecordIds : device'[j].present => device'[j] = device[j]
  <2>1. device \in [RecordIds -> {NoRecord} \cup RecordsOf(kind)]
    BY DEF TripInv, TripType
  <2> QED BY <1>1, <1>2, <1>3, <2>1
<1>5. TripType'
  BY <1>3, <1>4 DEF TripInv, TripType
<1>6. OneRecord'
  BY <1>3, <1>4 DEF TripInv, OneRecord, Twinned
<1>7. NewAlone' /\ OriginHeld'
  BY <1>1, <1>2, <1>3 DEF TripInv, NewAlone, OriginHeld
<1>8. OriginKept'
  BY <1>2, <1>3, <1>4 DEF TripInv, OriginKept
<1>9. SettledKept'
  BY <1>2, <1>3, <1>4 DEF TripInv, TripType, SettledKept
<1> QED BY <1>5, <1>6, <1>7, <1>8, <1>9 DEF TripInv

LEMMA DesktopKeeps ==
    ASSUME TripInv,
           \/ \E content \in Desktop[kind] : DesktopEdits(content)
           \/ \E slot \in Categories : DesktopMoves(slot)
    PROVE  TripInv'
<1>1. item \in ItemsOf(kind) /\ kind \in PimKinds /\ edits < MaxEdits
  BY TypeGives DEF DesktopEdits, DesktopMoves
<1>2. /\ settled' = settled \ {item.id} /\ origin' = NoRecord /\ edits' = edits + 1
      /\ kind' = kind /\ device' = device /\ link' = link /\ lost' = lost
  BY DEF DesktopEdits, DesktopMoves
<1>3. /\ item.id \in {NoRecordId, ZeroId} \cup RecordIds /\ item.slot \in 0..15
      /\ item.private \in BOOLEAN /\ item.content \in ContentsOf(kind) /\ item.present = TRUE
  BY <1>1 DEF ItemsOf
<1>4. item' \in ItemsOf(kind) /\ item'.id = item.id
  <2>1. ASSUME NEW content \in Desktop[kind], DesktopEdits(content)
        PROVE  item' \in ItemsOf(kind) /\ item'.id = item.id
    <3>1. content \in ContentsOf(kind) /\ item' = [item EXCEPT !.content = content]
      BY <2>1, TypeGives, RecordTripAssumption DEF DesktopEdits
    <3> QED BY <1>1, <3>1 DEF ItemsOf
  <2>2. ASSUME NEW slot \in Categories, DesktopMoves(slot)
        PROVE  item' \in ItemsOf(kind) /\ item'.id = item.id
    <3>1. slot \in 0..15 /\ item' = [item EXCEPT !.slot = slot]
      BY <2>2, RecordTripAssumption DEF DesktopMoves
    <3> QED BY <1>1, <3>1 DEF ItemsOf
  <2> QED BY <2>1, <2>2
<1>5. edits' \in 0..MaxEdits
  BY <1>1, <1>2, RecordTripAssumption DEF TripInv, TripType
<1>6. TripType'
  BY <1>2, <1>4, <1>5 DEF TripInv, TripType
<1>7. OneRecord'
  BY <1>2 DEF TripInv, OneRecord, Twinned
<1>8. NewAlone'
  BY <1>2, <1>3, <1>4 DEF TripInv, NewAlone, Twinned
<1>9. OriginHeld' /\ OriginKept'
  <2>1. NoRecord.present = FALSE
    BY DEF NoRecord
  <2> QED BY <1>2, <2>1 DEF OriginHeld, OriginKept
<1>10. SettledKept'
  BY <1>2, <1>4 DEF TripInv, SettledKept
<1> QED BY <1>6, <1>7, <1>8, <1>9, <1>10 DEF TripInv

LEMMA PalmKeeps ==
    ASSUME TripInv, NEW id \in RecordIds, NEW category \in Categories, NEW secret \in BOOLEAN,
           PalmEdits(id, category, secret)
    PROVE  TripInv'
<1> DEFINE r == PalmRecord(category, secret, device[id].data)
<1>1. kind \in PimKinds /\ device[id] \in RecordsOf(kind) /\ edits < MaxEdits
  BY TypeGives DEF PalmEdits
<1>2. r \in RecordsOf(kind) /\ r.present
  <2>1. category \in 0..15 /\ device[id].data \in DataOf(kind)
    BY <1>1, RecordTripAssumption, RecordFields
  <2>2. r \in RecordsOf(kind)
    BY <1>1, <2>1, RecordFields
  <2> HIDE DEF r
  <2> QED BY <1>1, <2>2, RecordFields
<1>3. /\ device' = [device EXCEPT ![id] = r] /\ settled' = settled \ {id}
      /\ item' = (IF item.present /\ item.id \in RecordIds THEN NoItem ELSE item)
      /\ origin' = (IF origin.present THEN device'[id] ELSE origin)
      /\ edits' = edits + 1 /\ kind' = kind /\ link' = link /\ lost' = lost
      /\ device[id].present
  BY DEF PalmEdits
<1> HIDE DEF r
<1>4. /\ device \in [RecordIds -> {NoRecord} \cup RecordsOf(kind)]
      /\ device' \in [RecordIds -> {NoRecord} \cup RecordsOf(kind)]
      /\ device'[id] = r
      /\ \A j \in RecordIds : j # id => device'[j] = device[j]
      /\ \A j \in RecordIds : device'[j].present <=> device[j].present
  <2>1. device \in [RecordIds -> {NoRecord} \cup RecordsOf(kind)]
    BY DEF TripInv, TripType
  <2> QED BY <1>2, <1>3, <2>1
<1>5. NoItem.present = FALSE
  BY DEF NoItem
<1>6. edits' \in 0..MaxEdits
  BY <1>1, <1>3, RecordTripAssumption DEF TripInv, TripType
<1>7. TripType'
  <2>1. /\ origin \in {NoRecord} \cup RecordsOf(kind) /\ item \in {NoItem} \cup ItemsOf(kind)
        /\ settled \in SUBSET RecordIds
    BY DEF TripInv, TripType
  <2> QED BY <1>2, <1>3, <1>4, <1>6, <2>1 DEF TripInv, TripType
<1>8. OneRecord'
  BY <1>3, <1>4 DEF TripInv, OneRecord, Twinned
<1>9. NewAlone'
  <2>1. ASSUME item'.present, item'.id = NoRecordId
        PROVE  Twinned
    BY <1>3, <1>5, <2>1 DEF TripInv, NewAlone
  <2> QED BY <1>3, <2>1 DEF NewAlone, Twinned
<1>10. OriginHeld'
  BY <1>3, <1>5 DEF TripInv, OriginHeld
<1>11. OriginKept'
  <2>1. SaysAs(kind, r, r)
    <3>1. r.data \in DataOf(kind)
      BY <1>1, <1>2, RecordFields
    <3> QED BY <1>1, <3>1, Meaning DEF SaysAs
  <2>2. ASSUME origin'.present
        PROVE  /\ origin' = r /\ ~item'.present
               /\ \A j \in RecordIds : device'[j].present => j = id
    <3>1. origin.present
      BY <1>3, <2>2
    <3>2. ~Twinned /\ (item.present => item.id \in RecordIds)
      BY <3>1 DEF TripInv, OriginHeld, Twinned
    <3>3. \A j \in RecordIds : device[j].present => j = id
      BY <1>3, <3>2 DEF TripInv, OneRecord
    <3> QED BY <1>3, <1>4, <1>5, <3>1, <3>2, <3>3
  <2> QED BY <1>3, <1>4, <2>1, <2>2 DEF OriginKept
<1>12. SettledKept'
  <2>1. ASSUME NEW j \in settled', device'[j].present
        PROVE  WrittenBack(kind, device'[j]) /\ ~(item'.present /\ item'.id = j)
    <3>1. j \in settled /\ j # id /\ j \in RecordIds
      BY <1>3, <1>7 DEF TripType
    <3>2. WrittenBack(kind, device[j])
      BY <1>4, <2>1, <3>1 DEF TripInv, SettledKept
    <3> QED BY <1>3, <1>4, <1>5, <3>1, <3>2
  <2> QED BY <1>3, <2>1 DEF SettledKept
<1> QED BY <1>7, <1>8, <1>9, <1>10, <1>11, <1>12 DEF TripInv

LEMMA TripStep == TripInv /\ [TripNext]_tripVars => TripInv'
<1> SUFFICES ASSUME TripInv, [TripNext]_tripVars PROVE TripInv'
  OBVIOUS
<1>1. ASSUME NEW slot \in Categories, NEW id \in RecordIds, FetchItems(slot, id)
      PROVE  TripInv'
  <2>1. item' = ReadOf(kind, device[id], id)
    BY <1>1 DEF FetchItems, ReadOf
  <2> QED BY <1>1, <2>1, ReadKeeps DEF FetchItems
<1>2. ASSUME NEW id \in RecordIds, LoadRecordsOrError(id)
      PROVE  TripInv'
  <2>1. item' = ReadOf(kind, device[id], id)
    BY <1>2 DEF LoadRecordsOrError, ReadOf
  <2> QED BY <1>2, <2>1, ReadKeeps DEF LoadRecordsOrError
<1>3. CASE LinkLost \/ LinkBack
  <2>1. UNCHANGED <<kind, device, item, origin, settled, lost, edits>> /\ link' \in BOOLEAN
    BY <1>3 DEF LinkLost, LinkBack
  <2> QED
    BY <2>1
    DEF TripInv, TripType, OneRecord, NewAlone, OriginHeld, OriginKept, SettledKept, Twinned
<1>4. CASE PushItems
  <2>1. WrittenOf(kind, item) = EncodedEvent /\ kind = "datebook"
    BY <1>4 DEF PushItems, WrittenOf, EncodedEvent
  <2>2. CASE Create(EncodedEvent, NoRecordId)
    BY <2>1, <2>2, CreateKeeps
  <2>3. CASE Update(EncodedEvent)
    BY <2>1, <2>3, UpdateKeeps
  <2> QED BY <1>4, <2>2, <2>3 DEF PushItems
<1>5. CASE CreateRecord
  <2>1. /\ WrittenOf(kind, item) = PalmRecord(0, FALSE, Encode(kind, item.content))
        /\ kind # "datebook"
    BY <1>5 DEF CreateRecord, WrittenOf
  <2> QED BY <1>5, <2>1, CreateKeeps DEF CreateRecord
<1>6. CASE UpdateRecord
  <2>1. WrittenOf(kind, item) = PalmRecord(0, FALSE, Encode(kind, item.content))
    BY <1>6 DEF UpdateRecord, WrittenOf
  <2> QED BY <1>6, <2>1, UpdateKeeps DEF UpdateRecord
<1>7. CASE DeleteItems
  BY <1>7, DeleteKeeps
<1>8. CASE \/ \E content \in Desktop[kind] : DesktopEdits(content)
           \/ \E slot \in Categories : DesktopMoves(slot)
  BY <1>8, DesktopKeeps
<1>9. ASSUME NEW id \in RecordIds, NEW category \in Categories, NEW secret \in BOOLEAN,
             PalmEdits(id, category, secret)
      PROVE  TripInv'
  BY <1>9, PalmKeeps
<1>10. CASE UNCHANGED tripVars
  BY <1>10
  DEF tripVars, TripInv, TripType, OneRecord, NewAlone, OriginHeld, OriginKept, SettledKept,
      Twinned
<1> QED BY <1>1, <1>2, <1>3, <1>4, <1>5, <1>6, <1>7, <1>8, <1>9, <1>10 DEF TripNext

LEMMA TripInvariant == TripSpec => []TripInv
<1> QED BY TripStart, TripStep, PTL DEF TripSpec

(* What any round may change: a record that was written back stays the     *)
(* record it is.                                                           *)
LEMMA TripSettles ==
    ASSUME TripInv, [TripNext]_tripVars, NEW id \in settled \cap settled',
           device[id].present, device'[id].present
    PROVE  SettledAs(kind, device[id], device'[id])
<1>1. device \in [RecordIds -> {NoRecord} \cup RecordsOf(kind)] /\ id \in RecordIds
  BY DEF TripInv, TripType
<1>2. ASSUME device'[id] = device[id]
      PROVE  SettledAs(kind, device[id], device'[id])
  BY <1>2 DEF SettledAs
<1>3. ASSUME Update(WrittenOf(kind, item))
      PROVE  SettledAs(kind, device[id], device'[id])
  <2>1. \/ device' = [device EXCEPT ![item.id] = WrittenOf(kind, item)]
        \/ UNCHANGED device
    BY <1>3 DEF Update, Written, Unanswered, Stored
  <2>2. item.id = id => SettledAs(kind, device[id], WrittenOf(kind, item))
    BY <1>3 DEF TripInv, SettledKept, Update
  <2> QED BY <1>1, <1>2, <2>1, <2>2
<1>4. ASSUME NEW record, NEW noId, Create(record, noId)
      PROVE  SettledAs(kind, device[id], device'[id])
  <2>1. NewId # id
    BY <1>4, NewIdIs DEF Create
  <2>2. device' = [device EXCEPT ![NewId] = record] \/ UNCHANGED device
    BY <1>4 DEF Create, Written, Unanswered, Stored
  <2> HIDE DEF NewId
  <2> QED BY <1>1, <1>2, <2>1, <2>2
<1>5. CASE PushItems
  <2>1. WrittenOf(kind, item) = EncodedEvent
    BY <1>5 DEF PushItems, WrittenOf, EncodedEvent
  <2> QED BY <1>3, <1>4, <1>5, <2>1 DEF PushItems
<1>6. CASE CreateRecord \/ UpdateRecord
  <2>1. WrittenOf(kind, item) = PalmRecord(0, FALSE, Encode(kind, item.content))
    BY <1>6 DEF CreateRecord, UpdateRecord, WrittenOf
  <2> QED BY <1>3, <1>4, <1>6, <2>1 DEF CreateRecord, UpdateRecord
<1>7. CASE DeleteItems
  <2>1. device' = [device EXCEPT ![item.id] = NoRecord] /\ item.id # id
    BY <1>7 DEF DeleteItems
  <2> QED BY <1>1, <1>2, <2>1
<1>8. CASE \/ \E slot \in Categories, j \in RecordIds : FetchItems(slot, j)
           \/ \E j \in RecordIds : LoadRecordsOrError(j)
           \/ LinkLost \/ LinkBack
           \/ \E content \in Desktop[kind] : DesktopEdits(content)
           \/ \E slot \in Categories : DesktopMoves(slot)
           \/ UNCHANGED tripVars
  <2>1. UNCHANGED device
    BY <1>8
    DEF FetchItems, LoadRecordsOrError, LinkLost, LinkBack, DesktopEdits, DesktopMoves, tripVars
  <2> QED BY <1>2, <2>1
<1>9. ASSUME NEW j \in RecordIds, NEW category \in Categories, NEW secret \in BOOLEAN,
             PalmEdits(j, category, secret)
      PROVE  SettledAs(kind, device[id], device'[id])
  <2>1. device' = [device EXCEPT ![j] = PalmRecord(category, secret, @.data)] /\ j # id
    BY <1>9 DEF PalmEdits
  <2> QED BY <1>1, <1>2, <2>1
<1> QED BY <1>5, <1>6, <1>7, <1>8, <1>9 DEF TripNext

(* PalmCalendarBackend, the contacts and the to-do backend with their      *)
(* codecs: whatever the user of the Palm enters of what the codecs are     *)
(* meant to carry, a record that nobody edits still means it after any     *)
(* number of rounds.                                                       *)
THEOREM MeaningSurvives == TripSpec => []MeaningKept
<1>1. TripInv => MeaningKept
  BY DEF TripInv, OriginKept, SaysAs, MeaningKept, Untouched
<1> QED BY <1>1, TripInvariant, PTL

(* DatebookCodec, kde_pim_convert and the backends: whatever the desktop   *)
(* user makes of an item, what was written back once is written back the   *)
(* same, so that the two sides do not keep changing each other; exceptions *)
(* whose rule the first writing lost go with the next.                     *)
THEOREM RecordsSettle == TripSpec => RoundsSettle
<1>1. TripInv /\ [TripNext]_tripVars =>
        [\A id \in settled \cap settled' :
           device[id].present /\ device'[id].present
             => /\ device'[id].data \in {device[id].data, Tidy(kind, device[id].data)}
                /\ device'[id].category = device[id].category
                /\ device'[id].secret = device[id].secret]_tripVars
  BY TripSettles DEF SettledAs
<1> QED BY <1>1, TripInvariant, PTL DEF TripSpec, RoundsSettle

(* pushItems and createRecord leave the new record's id on the item: with  *)
(* any number of failed calls, retries and lost links, an item is created  *)
(* a second time only where the answer to a stored event was lost.         *)
THEOREM NeverCreatedTwice == TripSpec => []NoTwin
<1>1. TripInv => NoTwin
  <2> SUFFICES ASSUME TripInv, ~Twinned PROVE NoTwin
    BY DEF NoTwin, Twinned
  <2> DEFINE P == {id \in RecordIds : device[id].present}
  <2>1. \A i, j \in P : i = j
    BY DEF TripInv, OneRecord
  <2>2. CASE P = {}
    BY <2>2, FS_EmptySet DEF NoTwin
  <2>3. ASSUME NEW i \in P
        PROVE  Cardinality(P) <= 1
    <3>1. P = {i}
      BY <2>1
    <3>2. Cardinality({i}) = 1
      BY FS_Singleton
    <3>3. Cardinality(P) = 1
      BY <3>1, <3>2
    <3> HIDE DEF P
    <3> QED BY <3>3
  <2> QED BY <2>2, <2>3 DEF NoTwin
<1> QED BY <1>1, TripInvariant, PTL


-----------------------------------------------------------------------------
(* The store of conflicts.                                                 *)

Known == {c \in Ids : store[c] # Absent}

PromptType == prompt \in {"none", "asked", "open"} \cup Answers

WindowType ==
    /\ store \in [Ids -> Records]
    /\ badge \in Nat
    /\ current \in [Dialogs -> Ids \cup {NoId, Shut}]
    /\ question \in Questions \cup {NoQuestion}

EngineType ==
    /\ posted \subseteq Ids
    /\ engine \in [Ids -> {"none", "open"} \cup Resolutions]
    /\ ready \in BOOLEAN

AppliedDecided == \A c \in Ids : store[c].applied => store[c].decision \in ReviewDecisions

(* The inductive invariant: the types; that only a decided record is       *)
(* marked as applied, so that no button of a pending one reaches it; that  *)
(* finitely many conflicts are known, though Ids may be infinite; and that *)
(* the badge counts them while no dialog shows them.                       *)
WindowInv ==
    /\ WindowType
    /\ AppliedDecided
    /\ IsFiniteSet(Known)
    /\ NoConflictHidden

IInv == WindowInv /\ EngineType /\ PromptType

LEMMA RecordsAre ==
    /\ Absent \in Records /\ Fresh \in Records
    /\ ~Absent.applied /\ ~Fresh.applied
    /\ Absent.decision = "Absent" /\ Fresh.decision = "Pending"
    /\ Fresh # Absent
BY DEF Absent, Fresh, Records

(* What is pending is known, so it can be counted; and fewer is fewer.     *)
LEMMA PendingCounted ==
    ASSUME IsFiniteSet(Known)
    PROVE  /\ PendingConflicts \subseteq Known
           /\ IsFiniteSet(PendingConflicts) /\ Cardinality(PendingConflicts) \in Nat
<1>1. PendingConflicts \subseteq Known
  BY RecordsAre DEF PendingConflicts, Known
<1>2. IsFiniteSet(PendingConflicts)
  BY <1>1, FS_Subset
<1>3. QED
  BY <1>1, <1>2, FS_CardinalityType

LEMMA FewerPending ==
    ASSUME IsFiniteSet(Known), Known' \subseteq Known,
           PendingConflicts' \subseteq PendingConflicts
    PROVE  IsFiniteSet(Known') /\ Cardinality(PendingConflicts') \in Nat
           /\ Cardinality(PendingConflicts') <= Cardinality(PendingConflicts)
<1>1. IsFiniteSet(Known')
  BY FS_Subset
<1>2. Cardinality(PendingConflicts') <= Cardinality(PendingConflicts)
  BY PendingCounted, FS_Subset
<1>3. IsFiniteSet(PendingConflicts')
  BY PendingCounted, FS_Subset
<1>4. QED
  BY <1>1, <1>2, <1>3, FS_CardinalityType

LEMMA OneMorePending ==
    ASSUME IsFiniteSet(Known), NEW c \in Ids, Known' \subseteq Known \cup {c},
           PendingConflicts' \subseteq PendingConflicts \cup {c}
    PROVE  IsFiniteSet(Known') /\ Cardinality(PendingConflicts') \in Nat
           /\ Cardinality(PendingConflicts') <= Cardinality(PendingConflicts) + 1
<1>1. IsFiniteSet(Known \cup {c}) /\ IsFiniteSet(PendingConflicts \cup {c})
  BY PendingCounted, FS_AddElement
<1>2. IsFiniteSet(Known') /\ IsFiniteSet(PendingConflicts')
  BY <1>1, FS_Subset
<1>3. Cardinality(PendingConflicts') <= Cardinality(PendingConflicts \cup {c})
  BY <1>1, FS_Subset
<1>4. Cardinality(PendingConflicts \cup {c}) = Cardinality(PendingConflicts)
      \/ Cardinality(PendingConflicts \cup {c}) = Cardinality(PendingConflicts) + 1
  BY PendingCounted, FS_AddElement
<1>5. Cardinality(PendingConflicts') \in Nat /\ Cardinality(PendingConflicts \cup {c}) \in Nat
      /\ Cardinality(PendingConflicts) \in Nat
  BY <1>1, <1>2, PendingCounted, FS_CardinalityType
<1>6. QED
  BY <1>2, <1>3, <1>4, <1>5

(* A refresh opens and shuts no dialog.                                    *)
LEMMA RefreshKeeps ==
    ASSUME WindowType, Refresh
    PROVE  current' \in [Dialogs -> Ids \cup {NoId, Shut}] /\ OpenDialogs' = OpenDialogs
BY ConflictsAssumption DEF WindowType, Refresh, OpenDialogs

-----------------------------------------------------------------------------
(* The worker's question touches nothing else.                             *)

LEMMA PromptStep ==
    ASSUME PromptType, Next
    PROVE  PromptType'
<1>1. CASE UNCHANGED prompt
  BY <1>1 DEF PromptType
<1>2. CASE ConfirmMassDelete \/ PromptUser \/ WorkerResumes
  BY <1>2 DEF ConfirmMassDelete, PromptUser, WorkerResumes, PromptType
<1>3. CASE Engine
  BY <1>1, <1>2, <1>3 DEF Engine, EngineDetects, EngineReplays
<1>4. CASE Prompt
  BY <1>2, <1>4 DEF Prompt, MassDeleteAnswered, PromptType
<1>5. CASE Window \/ Review
  BY <1>1, <1>5
     DEF Window, OnConflictDetected, OnConflictBadgeClicked, DialogFinished,
         ApplyConflictResolutionsToEngine, LoadProfile, TopologyReady,
         Review, OnConflictSelected, ResolveCurrentConflict, OnFilterChanged,
         OnResetToPending, AskBatch, AnswerNo, ResolveAll, ClearResolved
<1>6. QED
  BY <1>3, <1>4, <1>5 DEF Next

(* What the engine is told is a resolution.                                *)
LEMMA EngineStep ==
    ASSUME WindowType, EngineType, Next
    PROVE  EngineType'
<1>1. ASSUME NEW c \in Ids, EngineDetects(c) PROVE EngineType'
  BY <1>1 DEF EngineDetects, EngineType
<1>2. CASE EngineReplays
  BY <1>2 DEF EngineReplays, EngineType
<1>3. CASE ApplyConflictResolutionsToEngine
  <2>1. ASSUME NEW c \in ResolvedUnapplied
        PROVE  ToResolution(store[c].decision) \in Resolutions
    BY DEF ResolvedUnapplied, ReviewDecisions, ToResolution, Resolutions
  <2>2. QED
    BY <1>3, <2>1 DEF ApplyConflictResolutionsToEngine, EngineType, TakenByEngine
<1>4. CASE LoadProfile \/ TopologyReady \/ \E c \in Ids : OnConflictDetected(c)
  BY <1>4 DEF LoadProfile, TopologyReady, OnConflictDetected, EngineType
<1>5. CASE UNCHANGED <<posted, engine, ready>>
  BY <1>5 DEF EngineType
<1>6. CASE Engine
  BY <1>1, <1>2, <1>5, <1>6 DEF Engine, ConfirmMassDelete, WorkerResumes
<1>7. CASE Prompt
  BY <1>5, <1>7 DEF Prompt, PromptUser, MassDeleteAnswered
<1>8. CASE Window
  BY <1>3, <1>4, <1>5, <1>8 DEF Window, OnConflictBadgeClicked, DialogFinished
<1>9. CASE Review
  BY <1>5, <1>9
     DEF Review, OnConflictSelected, ResolveCurrentConflict, OnFilterChanged,
         OnResetToPending, AskBatch, AnswerNo, ResolveAll, ClearResolved
<1>10. QED
  BY <1>6, <1>7, <1>8, <1>9 DEF Next

-----------------------------------------------------------------------------
(* The store, the badge and the dialogs.                                   *)

(* A step after which no more is pending than before, and no dialog is     *)
(* shut, hides no conflict.                                                *)
LEMMA FewerInv ==
    ASSUME WindowInv, WindowType', AppliedDecided', UNCHANGED badge, Known' \subseteq Known,
           PendingConflicts' \subseteq PendingConflicts, OpenDialogs' = {} => OpenDialogs = {}
    PROVE  WindowInv'
<1>1. IsFiniteSet(Known') /\ Cardinality(PendingConflicts') \in Nat
      /\ Cardinality(PendingConflicts') <= Cardinality(PendingConflicts)
  BY FewerPending DEF WindowInv
<1>2. Cardinality(PendingConflicts) \in Nat
  BY PendingCounted DEF WindowInv
<1>3. NoConflictHidden'
  BY <1>1, <1>2 DEF WindowInv, WindowType, NoConflictHidden
<1>4. QED
  BY <1>1, <1>3 DEF WindowInv

LEMMA SameWindow ==
    ASSUME WindowInv, UNCHANGED <<store, badge, current>>,
           question' \in Questions \cup {NoQuestion}
    PROVE  WindowInv'
BY DEF WindowInv, WindowType, AppliedDecided, Known, NoConflictHidden, PendingConflicts,
       OpenDialogs

(* A step that changes the store as a whole, with a refresh.               *)
LEMMA StoreShrinks ==
    ASSUME WindowInv, UNCHANGED badge, OpenDialogs' = OpenDialogs,
           current' \in [Dialogs -> Ids \cup {NoId, Shut}],
           question' \in Questions \cup {NoQuestion},
           store' \in [Ids -> Records],
           \A c \in Ids : \/ store'[c] \in {store[c], Absent}
                          \/ /\ store[c] # Absent
                             /\ store'[c].decision \in ReviewDecisions
    PROVE  WindowInv'
<1>1. WindowType'
  BY DEF WindowInv, WindowType
<1>2. AppliedDecided'
  BY RecordsAre DEF WindowInv, AppliedDecided
<1>3. Known' \subseteq Known
  BY DEF Known
<1>4. PendingConflicts' \subseteq PendingConflicts
  BY RecordsAre DEF PendingConflicts, ReviewDecisions
<1>5. QED
  BY <1>1, <1>2, <1>3, <1>4, FewerInv

LEMMA DetectedInv ==
    ASSUME WindowInv, NEW c \in Ids, OnConflictDetected(c)
    PROVE  WindowInv'
<1>1. store' = [store EXCEPT ![c] = Fresh] /\ badge' = badge + 1 /\ UNCHANGED question
  BY DEF OnConflictDetected
<1>2. current' \in [Dialogs -> Ids \cup {NoId, Shut}] /\ OpenDialogs' = OpenDialogs
  BY RefreshKeeps DEF OnConflictDetected, WindowInv
<1>3. WindowType' /\ AppliedDecided'
  BY <1>1, <1>2, RecordsAre DEF WindowInv, WindowType, AppliedDecided
<1>4. Known' \subseteq Known \cup {c} /\ PendingConflicts' \subseteq PendingConflicts \cup {c}
  BY <1>1 DEF WindowInv, WindowType, Known, PendingConflicts
<1>5. IsFiniteSet(Known') /\ Cardinality(PendingConflicts') \in Nat
      /\ Cardinality(PendingConflicts') <= Cardinality(PendingConflicts) + 1
  BY <1>4, OneMorePending DEF WindowInv
<1>6. Cardinality(PendingConflicts) \in Nat /\ badge \in Nat
  BY PendingCounted DEF WindowInv, WindowType
<1>7. NoConflictHidden'
  BY <1>1, <1>2, <1>5, <1>6 DEF WindowInv, NoConflictHidden
<1>8. QED
  BY <1>3, <1>5, <1>7 DEF WindowInv

(* The end of a dialog sets the badge right.                               *)
LEMMA FinishedInv ==
    ASSUME WindowInv, NEW d \in Dialogs, DialogFinished(d)
    PROVE  WindowInv'
<1>1. /\ store' = [c \in Ids |-> IF store[c].applied THEN Absent ELSE store[c]]
      /\ badge' = Cardinality(PendingConflicts) /\ UNCHANGED question
  BY DEF DialogFinished, RemoveAppliedConflicts
<1>2. current' \in [Dialogs -> Ids \cup {NoId, Shut}]
  BY DEF DialogFinished, WindowInv, WindowType
<1>3. badge' \in Nat
  BY <1>1, PendingCounted DEF WindowInv
<1>4. WindowType' /\ AppliedDecided'
  BY <1>1, <1>2, <1>3, RecordsAre DEF WindowInv, WindowType, AppliedDecided
<1>5. Known' \subseteq Known /\ PendingConflicts' \subseteq PendingConflicts
  BY <1>1, RecordsAre DEF Known, PendingConflicts
<1>6. IsFiniteSet(Known') /\ Cardinality(PendingConflicts') <= Cardinality(PendingConflicts)
  BY <1>5, FewerPending DEF WindowInv
<1>7. NoConflictHidden'
  BY <1>1, <1>6 DEF NoConflictHidden
<1>8. QED
  BY <1>4, <1>6, <1>7 DEF WindowInv

LEMMA LoadProfileInv ==
    ASSUME WindowInv, LoadProfile
    PROVE  WindowInv'
<1>1. /\ store' = [c \in Ids |-> Absent] /\ badge' = 0 /\ UNCHANGED question
  BY DEF LoadProfile
<1>2. current' \in [Dialogs -> Ids \cup {NoId, Shut}]
  BY RefreshKeeps DEF LoadProfile, WindowInv
<1>3. Known' = {} /\ PendingConflicts' = {}
  BY <1>1, RecordsAre DEF Known, PendingConflicts
<1>4. QED
  BY <1>1, <1>2, <1>3, RecordsAre, FS_EmptySet
     DEF WindowInv, WindowType, AppliedDecided, NoConflictHidden

(* Decisions, taken one at a time or together, and applied.                *)
LEMMA DecidedInv ==
    ASSUME WindowInv,
           \/ ApplyConflictResolutionsToEngine \/ ResolveAll \/ ClearResolved
           \/ \E d \in Dialogs, decision \in ReviewDecisions :
                  ResolveCurrentConflict(d, decision)
    PROVE  WindowInv'
<1>1. WindowType
  BY DEF WindowInv
<1>2. CASE ApplyConflictResolutionsToEngine
  <2>1. CASE TakenByEngine = {}
    BY <1>1, <1>2, <2>1, SameWindow DEF ApplyConflictResolutionsToEngine, WindowType
  <2>2. CASE TakenByEngine # {}
    <3>1. Refresh /\ UNCHANGED <<badge, question>>
          /\ store' = [c \in Ids |-> IF c \in ResolvedUnapplied
                                     THEN [store[c] EXCEPT !.applied = TRUE] ELSE store[c]]
      BY <1>2, <2>2 DEF ApplyConflictResolutionsToEngine
    <3>2. \A c \in Ids : store[c] \in Records
      BY <1>1 DEF WindowType
    <3>3. \A c \in ResolvedUnapplied :
              /\ store[c].decision \in ReviewDecisions /\ store[c] # Absent
              /\ store'[c] \in Records /\ store'[c].decision = store[c].decision
      BY <3>1, <3>2, RecordsAre DEF ResolvedUnapplied, Records, ReviewDecisions
    <3>4. store' \in [Ids -> Records]
      BY <3>1, <3>2, <3>3
    <3>5. \A c \in Ids : \/ store'[c] \in {store[c], Absent}
                         \/ store[c] # Absent /\ store'[c].decision \in ReviewDecisions
      BY <3>1, <3>3
    <3>6. QED
      BY <1>1, <3>1, <3>4, <3>5, RefreshKeeps, StoreShrinks DEF WindowType
  <2>3. QED
    BY <2>1, <2>2
<1>3. CASE ResolveAll
  <2>1. Refresh /\ UNCHANGED badge /\ question' = NoQuestion
    BY <1>3 DEF ResolveAll
  <2>2. store' \in [Ids -> Records]
    BY <1>1, <1>3 DEF ResolveAll, WindowType, Records, ReviewDecisions
  <2>3. \A c \in Ids : \/ store'[c] \in {store[c], Absent}
                       \/ store[c] # Absent /\ store'[c].decision \in ReviewDecisions
    BY <1>3, RecordsAre DEF ResolveAll, PendingConflicts, ReviewDecisions
  <2>4. QED
    BY <1>1, <2>1, <2>2, <2>3, RefreshKeeps, StoreShrinks
<1>4. CASE ClearResolved
  <2>1. Refresh /\ UNCHANGED badge /\ question' = NoQuestion
    BY <1>4 DEF ClearResolved
  <2>2. store' \in [Ids -> Records] /\ \A c \in Ids : store'[c] \in {store[c], Absent}
    BY <1>1, <1>4, RecordsAre DEF ClearResolved, WindowType
  <2>3. QED
    BY <1>1, <2>1, <2>2, RefreshKeeps, StoreShrinks
<1>5. ASSUME NEW d \in Dialogs, NEW decision \in ReviewDecisions,
             ResolveCurrentConflict(d, decision)
      PROVE  WindowInv'
  <2>1. /\ Refresh /\ UNCHANGED <<badge, question>>
        /\ store' = [store EXCEPT ![current[d]].decision = decision]
        /\ current[d] \in Ids /\ store[current[d]].decision = "Pending"
    BY <1>5 DEF ResolveCurrentConflict, CanResolve, PendingConflicts
  <2>2. /\ store' \in [Ids -> Records]
        /\ store'[current[d]].decision = decision
        /\ \A c \in Ids \ {current[d]} : store'[c] = store[c]
    BY <1>1, <2>1 DEF WindowType, Records
  <2>3. store[current[d]] # Absent
    BY <2>1, RecordsAre
  <2>4. QED
    BY <1>1, <2>1, <2>2, <2>3, RefreshKeeps, StoreShrinks DEF WindowType
<1>6. QED
  BY <1>2, <1>3, <1>4, <1>5

(* A decision is taken back in a dialog, which is open.                    *)
LEMMA ResetInv ==
    ASSUME WindowInv, NEW d \in Dialogs, OnResetToPending(d)
    PROVE  WindowInv'
<1>1. /\ Refresh /\ UNCHANGED <<badge, question>>
      /\ store' = [store EXCEPT ![current[d]] = Fresh]
      /\ current[d] \in Ids /\ store[current[d]].decision \in ReviewDecisions
  BY DEF OnResetToPending, CanReset, ResolvedUnapplied
<1>2. current' \in [Dialogs -> Ids \cup {NoId, Shut}] /\ OpenDialogs' = OpenDialogs
  BY <1>1, RefreshKeeps DEF WindowInv
<1>3. d \in OpenDialogs
  BY <1>1, ConflictsAssumption DEF OpenDialogs
<1>4. WindowType' /\ AppliedDecided'
  BY <1>1, <1>2, RecordsAre DEF WindowInv, WindowType, AppliedDecided
<1>5. Known' \subseteq Known \cup {current[d]}
      /\ PendingConflicts' \subseteq PendingConflicts \cup {current[d]}
  BY <1>1 DEF WindowInv, WindowType, Known, PendingConflicts
<1>6. IsFiniteSet(Known')
  BY <1>1, <1>5, OneMorePending DEF WindowInv
<1>7. QED
  BY <1>2, <1>3, <1>4, <1>6 DEF WindowInv, NoConflictHidden

(* Steps of dialogs that leave the store alone: none is shut but by its    *)
(* end.                                                                    *)
LEMMA DialogInv ==
    ASSUME WindowInv,
           \/ \E d \in Dialogs : OnConflictBadgeClicked(d) \/ OnFilterChanged(d)
           \/ \E d \in Dialogs, c \in Ids : OnConflictSelected(d, c)
    PROVE  WindowInv'
<1>1. UNCHANGED <<store, badge, question>>
  BY DEF OnConflictBadgeClicked, OnFilterChanged, OnConflictSelected
<1>2. PICK d \in Dialogs, x \in Ids \cup {NoId} : current' = [current EXCEPT ![d] = x]
  BY DEF OnConflictBadgeClicked, OnFilterChanged, OnConflictSelected
<1>3. current' \in [Dialogs -> Ids \cup {NoId, Shut}] /\ d \in OpenDialogs'
  BY <1>2, ConflictsAssumption DEF WindowInv, WindowType, OpenDialogs
<1>4. WindowType' /\ AppliedDecided' /\ Known' = Known /\ PendingConflicts' = PendingConflicts
  BY <1>1, <1>3 DEF WindowInv, WindowType, AppliedDecided, Known, PendingConflicts
<1>5. QED
  BY <1>1, <1>3, <1>4, FewerInv

LEMMA WindowStep == WindowInv /\ Next => WindowInv'
<1> SUFFICES ASSUME WindowInv, Next PROVE WindowInv'
  OBVIOUS
<1>1. CASE Engine
  BY <1>1, SameWindow DEF Engine, EngineDetects, EngineReplays, ConfirmMassDelete,
     WorkerResumes, WindowInv, WindowType
<1>2. CASE Prompt
  BY <1>2, SameWindow DEF Prompt, PromptUser, MassDeleteAnswered, WindowInv, WindowType
<1>3. CASE TopologyReady \/ AnswerNo \/ \E d \in Dialogs, q \in Questions : AskBatch(d, q)
  BY <1>3, SameWindow DEF TopologyReady, AnswerNo, AskBatch, WindowInv, WindowType
<1>4. CASE Window
  BY <1>3, <1>4, DetectedInv, FinishedInv, LoadProfileInv, DecidedInv, DialogInv DEF Window
<1>5. CASE Review
  BY <1>3, <1>5, DecidedInv, ResetInv, DialogInv DEF Review
<1>6. QED
  BY <1>1, <1>2, <1>4, <1>5 DEF Next

-----------------------------------------------------------------------------
LEMMA InitInv == Init => IInv
<1> SUFFICES ASSUME Init PROVE IInv
  OBVIOUS
<1>1. Known = {} /\ PendingConflicts = {}
  BY RecordsAre DEF Init, Known, PendingConflicts
<1>2. WindowInv
  BY <1>1, RecordsAre, FS_EmptySet
     DEF Init, WindowInv, WindowType, AppliedDecided, NoConflictHidden
<1>3. EngineType /\ PromptType
  BY DEF Init, EngineType, PromptType
<1>4. QED
  BY <1>2, <1>3 DEF IInv

LEMMA StepInv == IInv /\ [Next]_vars => IInv'
<1> SUFFICES ASSUME IInv, [Next]_vars PROVE IInv'
  OBVIOUS
<1>1. CASE Next
  BY <1>1, WindowStep, EngineStep, PromptStep DEF IInv, WindowInv
<1>2. CASE UNCHANGED vars
  BY <1>2, SameWindow DEF vars, IInv, WindowInv, WindowType, EngineType, PromptType
<1>3. QED
  BY <1>1, <1>2

LEMMA AlwaysInv == Spec => []IInv
BY InitInv, StepInv, PTL DEF Spec

(* Every variable keeps to its type, and the badge stays a number.         *)
THEOREM TypeCorrect == Spec => []TypeOK
<1>1. IInv => TypeOK
  BY DEF IInv, WindowInv, WindowType, EngineType, PromptType, TypeOK
<1>2. QED
  BY <1>1, AlwaysInv, PTL

(* However reports, dialogs, resets, batch answers and profile loads       *)
(* overlap, the badge does not promise less than is pending while no       *)
(* dialog is open: no conflict is out of the user's reach.                 *)
THEOREM NeverHidden == Spec => []NoConflictHidden
<1>1. IInv => NoConflictHidden
  BY DEF IInv, WindowInv
<1>2. QED
  BY <1>1, AlwaysInv, PTL

(* Any dialog's view of an applied decision: it stays as it is, or its     *)
(* record goes.                                                            *)
THEOREM AppliedForGood == Spec => AppliedStays
<1>1. IInv /\ [Next]_vars =>
          [\A c \in Ids : store[c].applied /\ ~Delivered(c)
                           => store'[c] \in {store[c], Absent}]_vars
  <2> SUFFICES ASSUME IInv, Next, NEW c \in Ids, store[c].applied, ~Delivered(c)
               PROVE  store'[c] \in {store[c], Absent}
    OBVIOUS
  <2>1. store[c].decision \in ReviewDecisions /\ store \in [Ids -> Records]
    BY DEF IInv, WindowInv, WindowType, AppliedDecided
  <2>2. c \notin PendingConflicts /\ c \notin ResolvedUnapplied
    BY <2>1 DEF PendingConflicts, ResolvedUnapplied, ReviewDecisions
  <2>3. CASE Engine
    BY <2>3 DEF Engine, EngineDetects, EngineReplays, ConfirmMassDelete, WorkerResumes
  <2>4. CASE Prompt
    BY <2>4 DEF Prompt, PromptUser, MassDeleteAnswered
  <2>5. ASSUME NEW e \in Ids, OnConflictDetected(e) PROVE store'[c] \in {store[c], Absent}
    <3>1. e # c
      BY <2>5 DEF OnConflictDetected, Delivered
    <3>2. QED
      BY <2>1, <2>5, <3>1 DEF OnConflictDetected
  <2>6. CASE Window
    BY <2>2, <2>5, <2>6 DEF Window, OnConflictBadgeClicked, DialogFinished,
       RemoveAppliedConflicts, ApplyConflictResolutionsToEngine, LoadProfile, TopologyReady
  <2>7. ASSUME NEW d \in Dialogs, NEW decision, ResolveCurrentConflict(d, decision)
        PROVE  store'[c] = store[c]
    BY <2>1, <2>2, <2>7 DEF ResolveCurrentConflict, CanResolve
  <2>8. ASSUME NEW d \in Dialogs, OnResetToPending(d) PROVE store'[c] = store[c]
    BY <2>1, <2>2, <2>8 DEF OnResetToPending, CanReset
  <2>9. CASE Review
    BY <2>2, <2>7, <2>8, <2>9 DEF Review, OnConflictSelected, OnFilterChanged, AskBatch,
       AnswerNo, ResolveAll, ClearResolved
  <2>10. QED
    BY <2>3, <2>4, <2>6, <2>9 DEF Next
<1>2. QED
  BY <1>1, AlwaysInv, PTL DEF Spec, AppliedStays

(* No way to close a dialog, no batch answer but "Clear Resolved" and no   *)
(* other dialog loses a decision that is yet to be applied.                *)
THEOREM DecisionsKept == Spec => DecisionKept
<1>1. IInv /\ [Next]_vars =>
          [\A c \in ResolvedUnapplied :
              \/ store'[c].decision # "Absent"
              \/ question = "clear"
              \/ \A i \in Ids : store'[i] = Absent /\ engine'[i] = "none"]_vars
  <2> SUFFICES ASSUME IInv, Next, NEW c \in ResolvedUnapplied, question # "clear",
                      ~LoadProfile
               PROVE  store'[c].decision # "Absent"
    BY DEF LoadProfile
  <2>1. /\ c \in Ids /\ store[c].decision \in ReviewDecisions /\ ~store[c].applied
        /\ store \in [Ids -> Records]
    BY DEF IInv, WindowInv, WindowType, ResolvedUnapplied
  <2>2. store[c].decision # "Absent" /\ Fresh.decision # "Absent"
        /\ \A decision \in ReviewDecisions : decision # "Absent"
    BY <2>1, RecordsAre DEF ReviewDecisions
  <2>3. CASE UNCHANGED store
    BY <2>2, <2>3
  <2>4. ASSUME NEW e \in Ids, OnConflictDetected(e) PROVE store'[c].decision # "Absent"
    BY <2>1, <2>2, <2>4 DEF OnConflictDetected
  <2>5. ASSUME NEW d \in Dialogs, DialogFinished(d) PROVE store'[c].decision # "Absent"
    BY <2>1, <2>2, <2>5 DEF DialogFinished, RemoveAppliedConflicts
  <2>6. CASE ApplyConflictResolutionsToEngine
    <3>1. CASE TakenByEngine # {}
      <4>1. store'[c] = [store[c] EXCEPT !.applied = TRUE]
        BY <2>1, <2>6, <3>1 DEF ApplyConflictResolutionsToEngine
      <4>2. store[c] \in Records
        BY <2>1
      <4>3. QED
        BY <2>2, <4>1, <4>2 DEF Records
    <3>2. QED
      BY <2>3, <2>6, <3>1 DEF ApplyConflictResolutionsToEngine
  <2>7. ASSUME NEW d \in Dialogs, NEW decision \in ReviewDecisions,
               ResolveCurrentConflict(d, decision)
        PROVE  store'[c].decision # "Absent"
    BY <2>1, <2>2, <2>7 DEF ResolveCurrentConflict, CanResolve, PendingConflicts, Records
  <2>8. ASSUME NEW d \in Dialogs, OnResetToPending(d) PROVE store'[c].decision # "Absent"
    BY <2>1, <2>2, <2>8 DEF OnResetToPending
  <2>9. CASE ResolveAll
    BY <2>1, <2>2, <2>9 DEF ResolveAll
  <2>10. CASE Engine \/ Prompt
    BY <2>3, <2>10 DEF Engine, EngineDetects, EngineReplays, ConfirmMassDelete,
       WorkerResumes, Prompt, PromptUser, MassDeleteAnswered
  <2>11. CASE Window
    BY <2>3, <2>4, <2>5, <2>6, <2>11 DEF Window, OnConflictBadgeClicked, TopologyReady
  <2>12. CASE Review
    BY <2>3, <2>7, <2>8, <2>9, <2>12 DEF Review, OnConflictSelected, OnFilterChanged,
       AskBatch, AnswerNo, ClearResolved
  <2>13. QED
    BY <2>10, <2>11, <2>12 DEF Next
<1>2. QED
  BY <1>1, AlwaysInv, PTL DEF Spec, DecisionKept

-----------------------------------------------------------------------------
(* The handler of conflicts with Palm records.                             *)

(* Whatever the policy and its fallback say, the overlays rule last.       *)
LEMMA OverlaysRule ==
    ASSUME NEW c \in Conflicts, NEW policy \in ConflictPolicies
    PROVE  LET decision == Decide(c, policy) IN
           /\ c.source = NotPalm \/ c.target = NotPalm =>
                 /\ IsArchived(c.source) => ~DeletesSource(c.type, decision)
                 /\ IsArchived(c.target) => ~DeletesTarget(c.type, decision)
           /\ c.type = "BothModified" /\ decision = "UseBoth" =>
                 (IsSecret(c.source) <=> IsSecret(c.target))
<1> DEFINE base == BaseDecision(policy)
           decision == Decide(c, policy)
           kept == IF KeepsSource(c, base) THEN "UseSource" ELSE "UseTarget"
<1>1. CASE base = "Pending"
  <2>1. decision = "Pending"
    BY <1>1 DEF Decide
  <2> QED BY <2>1 DEF DeletesSource, DeletesTarget
<1>2. CASE base # "Pending" /\ (KeepsSource(c, base) \/ KeepsTarget(c, base))
  <2>1. decision = kept
    BY <1>2 DEF Decide, ApplyOverlays
  <2>2. c.source = NotPalm \/ c.target = NotPalm =>
           /\ ~(KeepsSource(c, base) /\ IsArchived(c.target))
           /\ ~(KeepsTarget(c, base) /\ IsArchived(c.source))
    BY DEF KeepsSource, KeepsTarget, IsArchived
  <2>3. KeepsSource(c, base) => IsArchived(c.source)
    BY DEF KeepsSource
  <2>4. KeepsTarget(c, base) => IsArchived(c.target)
    BY DEF KeepsTarget
  <2> QED BY <1>2, <2>1, <2>2, <2>3, <2>4 DEF DeletesSource, DeletesTarget
<1>3. CASE /\ base # "Pending" /\ ~KeepsSource(c, base) /\ ~KeepsTarget(c, base)
           /\ LeaksSecret(c, base)
  <2>1. decision \in {"UseSource", "UseTarget"}
    BY <1>3 DEF Decide, ApplyOverlays
  <2>2. c.type = "BothModified"
    BY <1>3 DEF LeaksSecret
  <2> QED BY <2>1, <2>2 DEF DeletesSource, DeletesTarget
<1>4. CASE /\ base # "Pending" /\ ~KeepsSource(c, base) /\ ~KeepsTarget(c, base)
           /\ ~LeaksSecret(c, base) /\ TiedByTime(c, policy)
  <2>1. decision \in {"UseSource", "UseTarget"}
    BY <1>4 DEF Decide, ApplyOverlays
  <2>2. c.type = "BothModified"
    BY <1>4 DEF TiedByTime
  <2> QED BY <2>1, <2>2 DEF DeletesSource, DeletesTarget
<1>5. CASE /\ base # "Pending" /\ ~KeepsSource(c, base) /\ ~KeepsTarget(c, base)
           /\ ~LeaksSecret(c, base) /\ ~TiedByTime(c, policy)
  <2>1. decision = base
    BY <1>5 DEF Decide, ApplyOverlays
  <2> QED BY <1>5, <2>1 DEF KeepsSource, KeepsTarget, LeaksSecret, DeletesSource, DeletesTarget
<1> QED BY <1>1, <1>2, <1>3, <1>4, <1>5

LEMMA RulingStep ==
    ASSUME ArchivedKept, SecretNotDuplicated, [ConflictNext]_<<ruling, deferred>>
    PROVE  ArchivedKept' /\ SecretNotDuplicated'
<1>1. ASSUME NEW c \in Conflicts, NEW policy \in ConflictPolicies, PalmHandleConflict(c, policy)
      PROVE  ArchivedKept' /\ SecretNotDuplicated'
  <2>1. /\ ruling'.type = c.type /\ ruling'.source = c.source /\ ruling'.target = c.target
        /\ ruling'.decision = Decide(c, policy)
    BY <1>1 DEF PalmHandleConflict
  <2> QED BY <2>1, OverlaysRule DEF ArchivedKept, SecretNotDuplicated
<1>2. CASE OnSyncStart
  BY <1>2 DEF OnSyncStart, ArchivedKept, SecretNotDuplicated
<1>3. CASE UNCHANGED <<ruling, deferred>>
  BY <1>3 DEF ArchivedKept, SecretNotDuplicated
<1> QED BY <1>1, <1>2, <1>3 DEF ConflictNext

(* Between a Palm record and an item of another backend, no decision       *)
(* deletes an archived Palm record, whatever the policy answers            *)
(* (palmconflicthandler.h: "never delete an archived record on the Palm    *)
(* side").                                                                 *)
THEOREM ArchivedAlwaysKept == ConflictSpec => []ArchivedKept
<1>1. ConflictInit => ArchivedKept /\ SecretNotDuplicated
  BY DEF ConflictInit, ArchivedKept, SecretNotDuplicated
<1>2. ArchivedKept /\ SecretNotDuplicated /\ [ConflictNext]_<<ruling, deferred>> =>
        ArchivedKept' /\ SecretNotDuplicated'
  BY RulingStep
<1> QED BY <1>1, <1>2, PTL DEF ConflictSpec

(* A secret record is not duplicated next to one that is not               *)
(* (PalmConflictHandler::applyOverlays).                                   *)
THEOREM SecretNeverDuplicated == ConflictSpec => []SecretNotDuplicated
<1>1. ConflictInit => ArchivedKept /\ SecretNotDuplicated
  BY DEF ConflictInit, ArchivedKept, SecretNotDuplicated
<1>2. ArchivedKept /\ SecretNotDuplicated /\ [ConflictNext]_<<ruling, deferred>> =>
        ArchivedKept' /\ SecretNotDuplicated'
  BY RulingStep
<1> QED BY <1>1, <1>2, PTL DEF ConflictSpec
=============================================================================
