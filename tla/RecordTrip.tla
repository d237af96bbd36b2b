----------------------------- MODULE RecordTrip -----------------------------
(***************************************************************************)
(* One item of one kind on its way between the device and the desktop:     *)
(* an appointment through PalmCalendarBackend and DatebookCodec, a contact *)
(* or a to-do through PalmContactsBackend or PalmToDoBackend (the memo     *)
(* backend is their twin) and the codecs of PimCodecs.                     *)
(*                                                                         *)
(* Either side may edit the item between two rounds, the link may drop     *)
(* while a backend uses it, and a write may fail: before it reaches the    *)
(* device, or after, when only its answer is lost.                         *)
(***************************************************************************)
EXTENDS PimCodecs

CONSTANTS Kinds,      \* among "datebook", "contact", "todo"
          Contents,   \* per kind, what the Palm user may have entered
          Desktop,    \* per kind, what the desktop user may make of an item
          Categories, \* category slots in use
          MaxEdits    \* bound on the edits of both users

DataOf(k) ==
  CASE k = "datebook" -> Appointments [] k = "contact" -> Addresses [] k = "todo" -> Todos

ContentsOf(k) ==
  CASE k = "datebook" -> Events [] k = "contact" -> Addressees [] k = "todo" -> KTodos

ASSUME RecordTripAssumption ==
  /\ Kinds \subseteq {"datebook", "contact", "todo"}
  /\ \A k \in Kinds : Contents[k] \subseteq DataOf(k)
  /\ \A k \in Kinds : Desktop[k] \subseteq ContentsOf(k)
  /\ Categories \subseteq 0..15
  /\ MaxEdits \in Nat

VARIABLES kind,
          device,    \* the records of the database, by id
          item,      \* the desktop's item, with the record id it carries
          link,      \* isConnected()
          origin,    \* history: the record as the user of the Palm left it
          settled,   \* history: records written back and not edited since
          lost,      \* history: a record was created and its answer lost
          edits      \* history: number of edits

tripVars == <<kind, device, item, link, origin, settled, lost, edits>>

NoRecord == [present |-> FALSE]
NoItem == [present |-> FALSE]
RecordIds == 1..2
NoRecordId == 0
ZeroId == -1          \* "palm:<kind>:0", which is no record's

PalmRecord(category, secret, data) ==
  [present |-> TRUE, category |-> category, secret |-> secret, data |-> data]

Decode(k, data) ==
  CASE k = "datebook" -> DecodeAppointment(data)
    [] k = "contact"  -> ToAddressee(DecodeContact(data))
    [] k = "todo"     -> ToKCalTodo(DecodeTodo(data))

Encode(k, content) ==
  CASE k = "datebook" -> EncodeAppointment(content)
    [] k = "contact"  -> EncodeContact(FromAddressee(content))
    [] k = "todo"     -> EncodeTodo(FromKCalTodo(content))

TripInit ==
  /\ kind \in Kinds
  /\ \E category \in Categories, secret \in BOOLEAN :
        \/ /\ \E data \in Contents[kind] :
                 device = [id \in RecordIds |-> IF id = 1 THEN PalmRecord(category, secret, data)
                                               ELSE NoRecord]
           /\ item = NoItem
           /\ origin = device[1]
        \/ /\ device = [id \in RecordIds |-> NoRecord]
           /\ \E content \in Desktop[kind] :
                 item = [present |-> TRUE, id |-> NoRecordId, slot |-> category,
                         private |-> secret, content |-> content]
           /\ origin = NoRecord
  /\ link = TRUE
  /\ settled = {}
  /\ lost = FALSE
  /\ edits = 0

-----------------------------------------------------------------------------
(* Reading.                                                                *)

(* fetchItems of one calendar: the records of its category slot.           *)
FetchItems(slot, id) ==
  /\ kind = "datebook" /\ link
  /\ device[id].present /\ device[id].category = slot
  /\ item' = [present |-> TRUE, id |-> id, slot |-> slot, private |-> device[id].secret,
              content |-> Decode(kind, device[id].data)]
  /\ UNCHANGED <<kind, device, link, origin, settled, lost, edits>>

(* loadRecordsOrError: id and data, neither category nor attributes.       *)
LoadRecordsOrError(id) ==
  /\ kind # "datebook" /\ link
  /\ device[id].present
  /\ item' = [present |-> TRUE, id |-> id, slot |-> 0, private |-> FALSE,
              content |-> Decode(kind, device[id].data)]
  /\ UNCHANGED <<kind, device, link, origin, settled, lost, edits>>

(* A link that is lost before or while the records are read fails the      *)
(* operation; what was read is not handed on.                              *)
LinkLost ==
  /\ link /\ link' = FALSE
  /\ UNCHANGED <<kind, device, item, origin, settled, lost, edits>>

LinkBack ==
  /\ ~link /\ link' = TRUE
  /\ UNCHANGED <<kind, device, item, origin, settled, lost, edits>>

-----------------------------------------------------------------------------
(* Writing.                                                                *)

NewId == CHOOSE id \in RecordIds : ~device[id].present /\ \A j \in 1..(id - 1) : device[j].present

Stored(id, record) == link /\ device' = [device EXCEPT ![id] = record]

Written(id, record) ==
  /\ Stored(id, record)
  /\ settled' = settled \cup {id}
  /\ UNCHANGED <<kind, link, origin, lost, edits>>

(* The record is not stored, or it is and no answer comes back.            *)
Unanswered(id, record) ==
  /\ Stored(id, record) \/ UNCHANGED device
  /\ UNCHANGED <<kind, link, origin, settled, edits>>

(* The device chooses the id of a new record; noId is what the item is     *)
(* left with when the call fails.                                          *)
Create_Forgets(record, noId) ==
  /\ item.present /\ item.id = NoRecordId
  /\ \E id \in RecordIds : ~device[id].present
  /\ \/ Written(NewId, record) /\ UNCHANGED item
     \/ /\ Unanswered(NewId, record)
        /\ lost' = (lost \/ device' # device)
        /\ item' = [item EXCEPT !.id = noId]

Create(record, noId) ==
  /\ item.present /\ item.id = NoRecordId
  /\ \E id \in RecordIds : ~device[id].present
  /\ \/ Written(NewId, record) /\ item' = [item EXCEPT !.id = NewId]
     \/ /\ Unanswered(NewId, record)
        /\ lost' = (lost \/ device' # device)
        /\ item' = [item EXCEPT !.id = noId]

(* An update of record 0 is refused.                                       *)
Update(record) ==
  /\ item.present /\ item.id \in RecordIds /\ device[item.id].present
  /\ \/ Written(item.id, record)
     \/ Unanswered(item.id, record) /\ UNCHANGED lost
  /\ UNCHANGED item

(* The slot is that of the calendar; of the attributes only the secret bit *)
(* is written, from the event's secrecy.                                   *)
EncodedEvent == PalmRecord(item.slot, item.private, Encode(kind, item.content))

(* pushItems creates or updates by the record id the event carries, and    *)
(* leaves the id of a new record on the event.  It does not ask whether    *)
(* the link is there.  A failed item is pushed again.                      *)
PushItems ==
  /\ kind = "datebook"
  /\ Create(EncodedEvent, NoRecordId) \/ Update(EncodedEvent)

(* createRecord and updateRecord write category 0 and clear the secret bit.*)
(* The 0 of a create that failed is encoded into an id like any other, and *)
(* the item counts as created.                                             *)
CreateRecord ==
  /\ kind # "datebook"
  /\ Create(PalmRecord(0, FALSE, Encode(kind, item.content)), ZeroId)

UpdateRecord ==
  /\ kind # "datebook"
  /\ Update(PalmRecord(0, FALSE, Encode(kind, item.content)))

(* deleteItems finds the record by the number in the event's uid.  A       *)
(* record that is gone without an answer leaves the item.                  *)
DeleteItems ==
  /\ link /\ item.present /\ item.id \in RecordIds
  /\ device[item.id].present
  /\ device' = [device EXCEPT ![item.id] = NoRecord]
  /\ item' \in {item, NoItem}
  /\ settled' = settled \ {item.id}
  /\ UNCHANGED <<kind, link, origin, lost, edits>>

-----------------------------------------------------------------------------
(* The two users.                                                          *)

DesktopEdits(content) ==
  /\ edits < MaxEdits /\ item.present
  /\ item' = [item EXCEPT !.content = content]
  /\ settled' = settled \ {item.id} /\ origin' = NoRecord /\ edits' = edits + 1
  /\ UNCHANGED <<kind, device, link, lost>>

DesktopMoves(slot) ==
  /\ edits < MaxEdits /\ kind = "datebook" /\ item.present
  /\ item' = [item EXCEPT !.slot = slot]
  /\ settled' = settled \ {item.id} /\ origin' = NoRecord /\ edits' = edits + 1
  /\ UNCHANGED <<kind, device, link, lost>>

(* What the desktop had read of the record is stale.                       *)
PalmEdits(id, category, secret) ==
  /\ edits < MaxEdits /\ device[id].present
  /\ device' = [device EXCEPT ![id] = PalmRecord(category, secret, @.data)]
  /\ item' = IF item.present /\ item.id \in RecordIds THEN NoItem ELSE item
  /\ settled' = settled \ {id}
  /\ origin' = IF origin.present THEN device'[id] ELSE origin
  /\ edits' = edits + 1
  /\ UNCHANGED <<kind, link, lost>>

TripNext ==
  \/ \E slot \in Categories, id \in RecordIds : FetchItems(slot, id)
  \/ \E id \in RecordIds : LoadRecordsOrError(id)
  \/ LinkLost
  \/ LinkBack
  \/ PushItems
  \/ CreateRecord
  \/ UpdateRecord
  \/ DeleteItems
  \/ \E content \in Desktop[kind] : DesktopEdits(content)
  \/ \E slot \in Categories : DesktopMoves(slot)
  \/ \E id \in RecordIds, category \in Categories, secret \in BOOLEAN :
        PalmEdits(id, category, secret)

TripSpec == TripInit /\ [][TripNext]_tripVars

-----------------------------------------------------------------------------
(* What a codec is meant to carry: a contact whose phone slots are filled  *)
(* from the first one without a gap; an appointment that does not repeat   *)
(* by weekday of the month, whose alarm is not at the event itself, whose  *)
(* weeks begin on Sunday where that matters, and which has exceptions only *)
(* with a repetition; a to-do that is indefinite or has a date.            *)
WeekMatters(data) == data.repeatType = "weekly" /\ data.repeatFrequency > 1

Carried(k, data) ==
  CASE k = "contact"  -> \A i, j \in Slots :
                           i < j /\ data.phone[j] # NoText => data.phone[i] # NoText
    [] k = "datebook" -> /\ data.repeatType # "monthlyByDay"
                         /\ data.alarm => data.advance > 0
                         /\ WeekMatters(data) => data.repeatWeekstart = 0
                         /\ data.repeatType = "none" => data.exceptions = {}
    [] k = "todo"     -> data.indefinite \/ data.due # NoDate

(* Two contents say the same to the user of the Palm: labels of empty      *)
(* phone slots are not shown, an alarm is as long before in any unit, only *)
(* every other week, or fewer, depends on the day that weeks begin.        *)
SameMeaning(k, x, y) ==
  CASE k = "contact"  -> /\ x.phone = y.phone /\ x.showPhone = y.showPhone /\ x.rest = y.rest
                         /\ \A i \in Slots :
                              x.phone[i] # NoText => x.phoneLabel[i] = y.phoneLabel[i]
    [] k = "datebook" -> /\ x.alarm = y.alarm
                         /\ x.alarm => PalmAlarmToVAlarm(x.advance, x.units)
                                         = PalmAlarmToVAlarm(y.advance, y.units)
                         /\ WeekMatters(x) => x.repeatWeekstart = y.repeatWeekstart
                         /\ [x EXCEPT !.advance = 0, !.units = 0, !.repeatWeekstart = 0]
                              = [y EXCEPT !.advance = 0, !.units = 0, !.repeatWeekstart = 0]
    [] k = "todo"     -> x = y

Untouched(id) == origin.present /\ device[id].present

(* A record nobody edited means, after any number of rounds, what the Palm *)
(* user entered, byte by byte of its text (the codecs' carried part); an   *)
(* appointment also keeps its category slot and its private flag, though   *)
(* the backend rebuilds the record from the event.                         *)
MeaningKept ==
  \A id \in RecordIds : Untouched(id) =>
    /\ Carried(kind, origin.data) => SameMeaning(kind, device[id].data, origin.data)
    /\ kind = "datebook" => /\ device[id].category = origin.category
                            /\ device[id].secret = origin.secret

(* ... of any content, also what the codecs lose.  kde_pim_convert.h says  *)
(* of a contact that its lossy fields are stashed "so the reverse          *)
(* conversion is information-preserving".                                  *)
ContactPreserved ==
  \A id \in RecordIds : kind = "contact" /\ Untouched(id)
                          => SameMeaning(kind, device[id].data, origin.data)

(* ... and of any week start.  docs/FIELD_MAPPING.md maps repeatWeekstart  *)
(* to WKST.                                                                *)
WeekStartKept ==
  \A id \in RecordIds : kind = "datebook" /\ Untouched(id) /\ WeekMatters(origin.data)
     => device[id].data.repeatWeekstart = origin.data.repeatWeekstart

(* Without the exceptions of a repetition that it has not.                 *)
Tidy(k, data) ==
  IF k = "datebook" /\ data.repeatType = "none" THEN [data EXCEPT !.exceptions = {}] ELSE data

(* Once written back, further rounds over a record that nobody edits write *)
(* the same record: a lossy codec loses once, and the two sides do not     *)
(* keep changing each other.  One loss takes two rounds: of a repetition   *)
(* that the Palm has not, the first drops the rule and the second its      *)
(* exceptions.                                                             *)
RoundsSettle ==
  [][\A id \in settled \cap settled' :
       device[id].present /\ device'[id].present
         => /\ device'[id].data \in {device[id].data, Tidy(kind, device[id].data)}
            /\ device'[id].category = device[id].category
            /\ device'[id].secret = device[id].secret]_tripVars

(* An item has at most one record, however often its creation failed and   *)
(* was tried again; only an event whose record was stored without an       *)
(* answer is created a second time.                                        *)
NoTwin ==
  \/ Cardinality({id \in RecordIds : device[id].present}) <= 1
  \/ kind = "datebook" /\ lost
=============================================================================
