------------------------ MODULE BeeperDevicesProofs ------------------------
(***************************************************************************)
(* Theorems about what beeper does with devices (MCBeeperDevices), for any *)
(* users, devices and bounds: an attempt that is called complete was       *)
(* confirmed on both sides, and what is listed of the devices of others is *)
(* what the server has.                                                    *)
(***************************************************************************)
EXTENDS MCBeeperDevices, Sequences, SequenceTheorems, TLAPS

Types == {"request", "start", "key", "mac", "done"}
Ats == {"idle", "requested", "started", "accepted", "emojis", "confirmed", "done"}
SasSteps == {"request", "start", "key", "needMatchAndMac", "needMatch", "needMac", "done", "end"}
Others == [at : Ats, txid : Nat, mac : BOOLEAN]

(* A message that says done is about an attempt that was signed.           *)
Messages(Signed) ==
    {m \in [type : Types, from : OtherDevices, txid : Nat, old : BOOLEAN] :
        m.type = "done" => m.txid \in Signed}

SasTypes ==
    /\ step \in SasSteps
    /\ sasTxid \in Nat
    /\ presses \in Nat
    /\ inbox \in Seq(Messages(signed))
    /\ seen \in Nat
    /\ other \in [OtherDevices -> Others]
    /\ attempts \in Nat

(* The other device signs, or has confirmed, only what its user confirmed. *)
OthersConfirmed ==
    /\ signed \subseteq otherYes
    /\ \A d \in OtherDevices : other[d].at \in {"confirmed", "done"} => other[d].txid \in otherYes

(* The button is there only while an attempt shows its emojis, and a press *)
(* that waits in the queue is about the attempt under way.                 *)
PressesAreOfThisAttempt ==
    /\ step \in {"request", "start", "key"} => ui # "emojis" /\ presses = 0
    /\ presses > 0 => sasTxid \in saidYes
    /\ step \in {"needMac", "done", "end"} => sasTxid \in saidYes

SasInv == SasTypes /\ OthersConfirmed /\ PressesAreOfThisAttempt /\ CompleteOnlyIfConfirmed
-----------------------------------------------------------------------------
LEMMA MessagesGrow ==
    ASSUME NEW A, NEW B, A \subseteq B, NEW s \in Seq(Messages(A))
    PROVE  s \in Seq(Messages(B))
  <1>1. Messages(A) \subseteq Messages(B)
    BY DEF Messages
  <1>2. /\ Len(s) \in Nat /\ s = [i \in 1..Len(s) |-> s[i]]
        /\ \A i \in 1..Len(s) : s[i] \in Messages(A)
    BY LenProperties, ElementOfSeq
  <1>3. s \in [1..Len(s) -> Messages(B)]
    BY <1>1, <1>2
  <1> QED
    BY <1>2, <1>3, SeqDef

(* What another device says joins the messages.                            *)
LEMMA SaidIsGood ==
    ASSUME NEW S, NEW s \in Seq(Messages(S)), NEW d \in OtherDevices, NEW x \in Nat,
           NEW types \in Seq(Types),
           \A i \in 1..Len(types) : types[i] = "done" => x \in S
    PROVE  s \o [i \in 1..Len(types) |-> Sas!Message(types[i], d, x)] \in Seq(Messages(S))
  <1> DEFINE t == [i \in 1..Len(types) |-> Sas!Message(types[i], d, x)]
  <1>1. Len(types) \in Nat
    BY LenProperties
  <1>2. ASSUME NEW i \in 1..Len(types) PROVE Sas!Message(types[i], d, x) \in Messages(S)
    <2>1. types[i] \in Types
      BY ElementOfSeq
    <2> QED
      BY <2>1 DEF Sas!Message, Messages
  <1>3. t \in Seq(Messages(S))
    BY <1>1, <1>2, IsASeq
  <1> QED
    BY <1>3, ConcatProperties

LEMMA EventIsGood ==
    ASSUME NEW S, NEW s \in Seq(Messages(S)), NEW n \in Nat, n < Len(s)
    PROVE  s[n + 1] \in Messages(S)
  <1>1. Len(s) \in Nat
    BY LenProperties
  <1>2. n + 1 \in 1..Len(s)
    BY <1>1
  <1> QED
    BY <1>2, ElementOfSeq

(* Where another device is after a step of its own.                        *)
LEMMA OtherMoves ==
    ASSUME NEW o \in Others, NEW a \in Ats, NEW b \in BOOLEAN
    PROVE  /\ [o EXCEPT !.at = a] \in Others
           /\ [o EXCEPT !.at = a].at = a
           /\ [o EXCEPT !.at = a].txid = o.txid
           /\ [o EXCEPT !.at = a, !.mac = b] \in Others
           /\ [o EXCEPT !.at = a, !.mac = b].at = a
           /\ [o EXCEPT !.at = a, !.mac = b].txid = o.txid
  BY DEF Others
-----------------------------------------------------------------------------
(* The steps of this device.                                               *)
LEMMA EventStep ==
    ASSUME SasInv, Sas!HandleEvent
    PROVE  SasInv'
  <1> USE DEF SasInv
  <1>1. /\ inbox' = inbox /\ other' = other /\ attempts' = attempts /\ saidYes' = saidYes
        /\ otherYes' = otherYes /\ signed' = signed /\ seen' = seen + 1
        /\ seen < Len(inbox)
    BY DEF Sas!HandleEvent, Sas!HandleRequest, Sas!HandleStart, Sas!HandleKey, Sas!HandleMac,
           Sas!HandleDone, Sas!Takes
  <1>2. inbox[seen + 1] \in Messages(signed)
    BY <1>1, EventIsGood DEF SasTypes
  <1>3. Sas!Event.txid \in Nat /\ (Sas!Event.type = "done" => Sas!Event.txid \in signed)
    BY <1>2 DEF Sas!Event, Messages
  <1>4. OthersConfirmed'
    BY <1>1 DEF OthersConfirmed
  <1>5. /\ step' \in SasSteps /\ sasTxid' \in Nat /\ presses' = presses
        /\ PressesAreOfThisAttempt' /\ CompleteOnlyIfConfirmed'
    <2>1. CASE Sas!HandleRequest
      BY <2>1, <1>1, <1>3 DEF Sas!HandleRequest, Sas!AcceptsRequest, Sas!Denied, SasTypes, SasSteps,
           PressesAreOfThisAttempt, CompleteOnlyIfConfirmed, Sas!CompleteOnlyIfConfirmed
    <2>2. CASE Sas!HandleStart
      BY <2>2, <1>1 DEF Sas!HandleStart, Sas!AcceptsStart, Sas!Denied, SasTypes, SasSteps,
           PressesAreOfThisAttempt, CompleteOnlyIfConfirmed, Sas!CompleteOnlyIfConfirmed
    <2>3. CASE Sas!HandleKey
      BY <2>3, <1>1 DEF Sas!HandleKey, Sas!AcceptsKey, Sas!Denied, SasTypes, SasSteps,
           PressesAreOfThisAttempt, CompleteOnlyIfConfirmed, Sas!CompleteOnlyIfConfirmed
    <2>4. CASE Sas!HandleMac
      BY <2>4, <1>1 DEF Sas!HandleMac, Sas!AcceptsMac, Sas!Denied, SasTypes, SasSteps,
           PressesAreOfThisAttempt, CompleteOnlyIfConfirmed, Sas!CompleteOnlyIfConfirmed
    <2>5. CASE Sas!HandleDone
      <3>1. Sas!Event.type = "done"
        BY <2>5 DEF Sas!HandleDone, Sas!Takes, Sas!Event
      <3>2. CASE Sas!Denied
        BY <3>2, <1>1 DEF Sas!Denied, SasTypes, PressesAreOfThisAttempt,
             CompleteOnlyIfConfirmed, Sas!CompleteOnlyIfConfirmed
      <3>3. CASE ~Sas!Denied
        <4>1. Sas!AcceptsDone(Sas!Event) /\ completed' = completed \union {sasTxid} /\ step' = "end"
              /\ ui' = "verified" /\ UNCHANGED <<sasTxid, presses>>
          BY <2>5, <3>3 DEF Sas!HandleDone
        <4>2. sasTxid \in saidYes /\ sasTxid \in signed
          BY <4>1, <1>3, <3>1 DEF Sas!AcceptsDone, PressesAreOfThisAttempt
        <4> QED
          BY <4>1, <4>2, <1>1 DEF SasTypes, SasSteps, OthersConfirmed, PressesAreOfThisAttempt,
               CompleteOnlyIfConfirmed, Sas!CompleteOnlyIfConfirmed
      <3> QED
        BY <3>2, <3>3
    <2> QED
      BY <2>1, <2>2, <2>3, <2>4, <2>5 DEF Sas!HandleEvent
  <1>6. SasTypes'
    BY <1>1, <1>5 DEF SasTypes
  <1> QED
    BY <1>4, <1>5, <1>6

LEMMA AcknowledgeStep ==
    ASSUME SasInv, Sas!Acknowledge
    PROVE  SasInv'
  <1> USE DEF SasInv
  <1>1. UNCHANGED <<step, sasTxid, ui, presses, other, attempts, saidYes, otherYes, signed, completed>>
        /\ seen' = 0 /\ inbox' = SubSeq(inbox, seen + 1, Len(inbox))
    BY DEF Sas!Acknowledge, Sas!deviceVars, Sas!ghosts
  <1>2. inbox' \in Seq(Messages(signed))
    <2>1. \A i \in (seen + 1)..Len(inbox) : inbox[i] \in Messages(signed)
      <3> TAKE i \in (seen + 1)..Len(inbox)
      <3>1. i \in 1..Len(inbox)
        BY LenProperties DEF SasTypes
      <3> QED
        BY <3>1, ElementOfSeq DEF SasTypes
    <2>2. seen + 1 \in Nat \ {0} /\ seen + 1 \in Int /\ Len(inbox) \in Int
      BY LenProperties DEF SasTypes
    <2>3. \A i \in (seen + 1)..Len(inbox) : i \in 1..Len(inbox)
      BY <2>2
    <2> QED
      BY <1>1, <2>1, <2>2, <2>3, SubSeqProperties DEF SasTypes
  <1> QED
    BY <1>1, <1>2 DEF SasTypes, OthersConfirmed, PressesAreOfThisAttempt,
         CompleteOnlyIfConfirmed, Sas!CompleteOnlyIfConfirmed

LEMMA UserStep ==
    ASSUME SasInv, Sas!PressYes \/ Sas!Match \/ Sas!Restart
    PROVE  SasInv'
  <1> USE DEF SasInv
  <1>1. UNCHANGED <<inbox, other, attempts, otherYes, signed, completed>>
    BY DEF Sas!PressYes, Sas!Match, Sas!Restart, Sas!ghosts
  <1>2. /\ saidYes' = saidYes \/ saidYes' = saidYes \union {sasTxid}
        /\ seen' = seen \/ seen' = 0
        /\ attempts' = attempts
    BY DEF Sas!PressYes, Sas!Match, Sas!Restart, Sas!ghosts
  <1>3. OthersConfirmed' /\ CompleteOnlyIfConfirmed'
    BY <1>1, <1>2 DEF OthersConfirmed, CompleteOnlyIfConfirmed, Sas!CompleteOnlyIfConfirmed
  <1>4. step' \in SasSteps /\ sasTxid' \in Nat /\ presses' \in Nat /\ PressesAreOfThisAttempt'
    <2>1. CASE Sas!PressYes
      BY <2>1 DEF Sas!PressYes, Sas!deviceVars, SasTypes, PressesAreOfThisAttempt
    <2>2. CASE Sas!Match
      <3>1. /\ presses \in Nat /\ presses > 0 /\ presses' = presses - 1
            /\ UNCHANGED <<ui, saidYes, sasTxid>> /\ sasTxid \in saidYes
        BY <2>2 DEF Sas!Match, Sas!ghosts, SasTypes, PressesAreOfThisAttempt
      <3>2. step \notin {"request", "start", "key"} /\ step \in SasSteps
        BY <3>1 DEF PressesAreOfThisAttempt, SasTypes
      <3>3. step' \in {step, "needMac", "done"}
        BY <2>2 DEF Sas!Match
      <3>4. step' \notin {"request", "start", "key"} /\ step' \in SasSteps
        BY <3>2, <3>3 DEF SasSteps
      <3> QED
        BY <3>1, <3>4 DEF SasTypes, PressesAreOfThisAttempt
    <2>3. CASE Sas!Restart
      BY <2>3 DEF Sas!Restart, Sas!Forgotten, Sas!None, SasTypes, SasSteps, PressesAreOfThisAttempt
    <2> QED
      BY <2>1, <2>2, <2>3
  <1> QED
    BY <1>1, <1>2, <1>3, <1>4 DEF SasTypes
-----------------------------------------------------------------------------
(* The steps of the other devices.                                         *)
LEMMA OtherUnchanged ==
    ASSUME SasInv, Sas!OtherStep, signed \subseteq signed', otherYes \subseteq otherYes',
           inbox' \in Seq(Messages(signed')), other' \in [OtherDevices -> Others],
           attempts' \in Nat, OthersConfirmed'
    PROVE  SasInv'
  BY DEF SasInv, SasTypes, Sas!OtherStep, Sas!deviceVars, PressesAreOfThisAttempt,
     CompleteOnlyIfConfirmed, Sas!CompleteOnlyIfConfirmed

(* It says done as it comes to its end, which needs its user's answer.     *)
LEMMA Reactions ==
    ASSUME NEW o, o.at \in Ats, NEW type
    PROVE  /\ Sas!Reaction(o, type).to \in Ats
           /\ Sas!Reaction(o, type).say \in Seq(Types)
           /\ \A i \in 1..Len(Sas!Reaction(o, type).say) :
                 Sas!Reaction(o, type).say[i] = "done" => Sas!Reaction(o, type).to = "done"
           /\ Sas!Reaction(o, type).to \in {"confirmed", "done"} => o.at \in {"confirmed", "done"}
  <1> DEFINE r == Sas!Reaction(o, type)
  <1>1. \/ r = [to |-> "started", say |-> <<"start">>]
        \/ r = [to |-> "accepted", say |-> <<>>]
        \/ r = [to |-> "emojis", say |-> <<"key">>]
        \/ r = [to |-> "done", say |-> <<"done">>] /\ o.at = "confirmed"
        \/ r = [to |-> o.at, say |-> <<>>]
    BY DEF Sas!Reaction
  <1> HIDE DEF r
  <1>2. CASE r = [to |-> "started", say |-> <<"start">>]
    BY <1>2 DEF Ats, Types, r
  <1>3. CASE r = [to |-> "accepted", say |-> <<>>]
    BY <1>3 DEF Ats, Types, r
  <1>4. CASE r = [to |-> "emojis", say |-> <<"key">>]
    BY <1>4 DEF Ats, Types, r
  <1>5. CASE r = [to |-> "done", say |-> <<"done">>] /\ o.at = "confirmed"
    BY <1>5 DEF Ats, Types, r
  <1>6. CASE r = [to |-> o.at, say |-> <<>>]
    BY <1>6 DEF Ats, Types, r
  <1> QED
    BY <1>1, <1>2, <1>3, <1>4, <1>5, <1>6

LEMMA OtherRequestsStep ==
    ASSUME SasInv, NEW d \in OtherDevices, Sas!OtherRequests(d)
    PROVE  SasInv'
  <1> DEFINE o == [at |-> "requested", txid |-> attempts', mac |-> FALSE]
  <1>1. SasTypes /\ OthersConfirmed
    BY DEF SasInv
  <1>2. /\ other' = [other EXCEPT ![d] = o] /\ attempts' = attempts + 1
        /\ otherYes' = otherYes /\ signed' = signed
        /\ Sas!Receives(d, <<"request">>) /\ Sas!OtherStep
    BY DEF Sas!OtherRequests
  <1>3. attempts' \in Nat
    BY <1>1, <1>2 DEF SasTypes
  <1>4. o \in Others /\ o.at = "requested"
    BY <1>3 DEF Others, Ats
  <1>5. other' \in [OtherDevices -> Others] /\ other'[d].txid = attempts'
    BY <1>1, <1>2, <1>4 DEF SasTypes
  <1>6. inbox' \in Seq(Messages(signed))
    <2>1. <<"request">> \in Seq(Types) /\ Len(<<"request">>) = 1 /\ <<"request">>[1] = "request"
      BY DEF Types
    <2> DEFINE say == <<"request">>
    <2>2. \A i \in 1..Len(say) : say[i] = "done" => attempts' \in signed
      BY <2>1
    <2>3. inbox' = inbox \o [i \in 1..Len(say) |-> Sas!Message(say[i], d, attempts')]
      BY <1>2, <1>5 DEF Sas!Receives
    <2>4. say \in Seq(Types) /\ inbox \in Seq(Messages(signed))
      BY <1>1, <2>1 DEF SasTypes
    <2> HIDE DEF say
    <2> QED
      BY <1>3, <2>2, <2>3, <2>4, SaidIsGood
  <1>7. OthersConfirmed'
    BY <1>1, <1>2, <1>4 DEF OthersConfirmed, SasTypes
  <1> QED
    BY <1>2, <1>3, <1>5, <1>6, <1>7, OtherUnchanged

LEMMA OtherReceivesStep ==
    ASSUME SasInv, NEW d \in OtherDevices, Sas!OtherReceives(d)
    PROVE  SasInv'
  <1>1. SasTypes /\ OthersConfirmed
    BY DEF SasInv
  <1> DEFINE m == Head(outbox[d])
  <1> DEFINE r == Sas!Reaction(other[d], m.type)
  <1>2. otherYes' = otherYes /\ attempts' = attempts /\ Sas!OtherStep
    BY DEF Sas!OtherReceives
  <1>3. CASE m.txid = other[d].txid
    <2>1. /\ other' = [other EXCEPT ![d].at = r.to, ![d].mac = @ \/ m.type = "mac"]
          /\ Sas!Receives(d, r.say)
          /\ signed' = signed \union (IF r.to = "done" THEN {m.txid} ELSE {})
      BY <1>3 DEF Sas!OtherReceives
    <2>2. other[d] \in Others /\ other[d].at \in Ats /\ other[d].txid \in Nat
          /\ other[d].mac \in BOOLEAN
      BY <1>1 DEF SasTypes, Others
    <2>3. /\ r.to \in Ats /\ r.say \in Seq(Types)
          /\ \A i \in 1..Len(r.say) : r.say[i] = "done" => r.to = "done"
          /\ r.to \in {"confirmed", "done"} => other[d].at \in {"confirmed", "done"}
      BY <2>2, Reactions
    <2> HIDE DEF r
    <2> DEFINE b == other[d].mac \/ m.type = "mac"
    <2> DEFINE o == [other[d] EXCEPT !.at = r.to, !.mac = b]
    <2>4. b \in BOOLEAN
      OBVIOUS
    <2> HIDE DEF b
    <2>5. o \in Others /\ o.at = r.to /\ o.txid = other[d].txid
      <3>1. PICK a \in Ats, c \in BOOLEAN : a = r.to /\ c = b
        BY <2>3, <2>4
      <3>2. o = [other[d] EXCEPT !.at = a, !.mac = c]
        BY <3>1
      <3>3. PICK p \in Others : p = other[d]
        BY <2>2
      <3>4. o = [p EXCEPT !.at = a, !.mac = c]
        BY <3>2, <3>3
      <3> HIDE DEF o
      <3>5. /\ [p EXCEPT !.at = a, !.mac = c] \in Others
            /\ [p EXCEPT !.at = a, !.mac = c].at = a
            /\ [p EXCEPT !.at = a, !.mac = c].txid = p.txid
        BY OtherMoves
      <3> QED
        BY <3>1, <3>3, <3>4, <3>5
    <2>6. other' = [other EXCEPT ![d] = o]
      BY <2>1, <1>1 DEF SasTypes, b
    <2> HIDE DEF o
    <2>7. other' \in [OtherDevices -> Others] /\ other'[d] = o
          /\ \A e \in OtherDevices : e # d => other'[e] = other[e]
      BY <1>1, <2>5, <2>6 DEF SasTypes
    <2>8. r.to = "done" => other[d].txid \in otherYes
      BY <1>1, <2>3 DEF OthersConfirmed
    <2>9. OthersConfirmed'
      BY <1>1, <1>2, <1>3, <2>1, <2>3, <2>5, <2>7, <2>8 DEF OthersConfirmed
    <2>10. inbox \in Seq(Messages(signed'))
      BY <1>1, <2>1, MessagesGrow DEF SasTypes
    <2>11. \A i \in 1..Len(r.say) : r.say[i] = "done" => other[d].txid \in signed'
      BY <1>3, <2>1, <2>3
    <2>12. inbox' \in Seq(Messages(signed'))
      <3>1. inbox' = inbox \o [i \in 1..Len(r.say) |-> Sas!Message(r.say[i], d, other[d].txid)]
        BY <2>1, <2>5, <2>7 DEF Sas!Receives
      <3> QED
        BY <2>2, <2>3, <2>10, <2>11, <3>1, SaidIsGood
    <2>13. signed \subseteq signed'
      BY <2>1
    <2> QED
      BY <1>1, <1>2, <2>7, <2>9, <2>12, <2>13, OtherUnchanged DEF SasTypes
  <1>4. CASE m.txid # other[d].txid
    <2>1. UNCHANGED <<other, inbox, signed>>
      BY <1>4 DEF Sas!OtherReceives
    <2> QED
      BY <1>1, <1>2, <2>1, OtherUnchanged DEF SasTypes, OthersConfirmed
  <1> QED
    BY <1>3, <1>4

LEMMA OtherConfirmsStep ==
    ASSUME SasInv, NEW d \in OtherDevices, Sas!OtherConfirms(d)
    PROVE  SasInv'
  <1>1. SasTypes /\ OthersConfirmed
    BY DEF SasInv
  <1> DEFINE to == IF other[d].mac THEN "done" ELSE "confirmed"
  <1> DEFINE say == IF other[d].mac THEN <<"mac", "done">> ELSE <<"mac">>
  <1> DEFINE o == [other[d] EXCEPT !.at = to]
  <1>2. /\ otherYes' = otherYes \union {other[d].txid}
        /\ other' = [other EXCEPT ![d].at = to]
        /\ Sas!Receives(d, say)
        /\ signed' = IF other[d].mac THEN signed \union {other[d].txid} ELSE signed
        /\ attempts' = attempts /\ Sas!OtherStep
    BY DEF Sas!OtherConfirms
  <1>3. other[d] \in Others /\ other[d].txid \in Nat
    BY <1>1 DEF SasTypes, Others
  <1>4. to \in Ats
    BY DEF Ats
  <1>5. o \in Others /\ o.txid = other[d].txid
    BY <1>3, <1>4, OtherMoves
  <1>6. other' = [other EXCEPT ![d] = o]
    BY <1>1, <1>2 DEF SasTypes
  <1> HIDE DEF o
  <1>7. other' \in [OtherDevices -> Others] /\ other'[d] = o
        /\ \A e \in OtherDevices : e # d => other'[e] = other[e]
    BY <1>1, <1>5, <1>6 DEF SasTypes
  <1>8. signed \subseteq signed' /\ signed' \subseteq signed \union {other[d].txid}
    BY <1>2
  <1>9. OthersConfirmed'
    BY <1>1, <1>2, <1>5, <1>7, <1>8 DEF OthersConfirmed
  <1>10. inbox \in Seq(Messages(signed'))
    BY <1>1, <1>8, MessagesGrow DEF SasTypes
  <1>11. say \in Seq(Types) /\ \A i \in 1..Len(say) : say[i] = "done" => other[d].mac
    <2>1. CASE other[d].mac
      BY <2>1 DEF Types
    <2>2. CASE ~other[d].mac
      <3>1. say = <<"mac">>
        BY <2>2
      <3> QED
        BY <3>1 DEF Types
    <2> QED
      BY <2>1, <2>2
  <1>12. \A i \in 1..Len(say) : say[i] = "done" => other[d].txid \in signed'
    BY <1>2, <1>11
  <1> HIDE DEF say
  <1>13. inbox' \in Seq(Messages(signed'))
    <2>1. inbox' = inbox \o [i \in 1..Len(say) |-> Sas!Message(say[i], d, other[d].txid)]
      BY <1>2, <1>5, <1>7 DEF Sas!Receives
    <2> QED
      BY <1>3, <1>10, <1>11, <1>12, <2>1, SaidIsGood
  <1>14. otherYes \subseteq otherYes' /\ attempts' \in Nat
    BY <1>1, <1>2 DEF SasTypes
  <1> QED
    BY <1>2, <1>7, <1>8, <1>9, <1>13, <1>14, OtherUnchanged

LEMMA OtherGivesUpStep ==
    ASSUME SasInv, NEW d \in OtherDevices, Sas!OtherGivesUp(d)
    PROVE  SasInv'
  <1> DEFINE o == [at |-> "idle", txid |-> Sas!None, mac |-> FALSE]
  <1> DEFINE aged == [i \in DOMAIN inbox |->
                         IF inbox[i].from = d THEN [inbox[i] EXCEPT !.old = TRUE] ELSE inbox[i]]
  <1>1. SasTypes /\ OthersConfirmed
    BY DEF SasInv
  <1>2. /\ other' = [other EXCEPT ![d] = o] /\ attempts' = attempts
        /\ otherYes' = otherYes /\ signed' = signed
        /\ inbox' = inbox \/ inbox' = aged
        /\ Sas!OtherStep
    BY DEF Sas!OtherGivesUp
  <1>3. o \in Others /\ o.at = "idle"
    BY DEF Others, Ats, Sas!None
  <1>4. other' \in [OtherDevices -> Others]
    BY <1>1, <1>2, <1>3 DEF SasTypes
  <1>5. aged \in Seq(Messages(signed))
    <2>1. Len(inbox) \in Nat /\ DOMAIN inbox = 1..Len(inbox)
      BY <1>1, LenProperties DEF SasTypes
    <2>2. ASSUME NEW i \in 1..Len(inbox)
          PROVE  (IF inbox[i].from = d THEN [inbox[i] EXCEPT !.old = TRUE] ELSE inbox[i])
                    \in Messages(signed)
      <3>1. inbox[i] \in Messages(signed)
        BY <1>1, ElementOfSeq DEF SasTypes
      <3> QED
        BY <3>1 DEF Messages
    <2> QED
      BY <2>1, <2>2, IsASeq
  <1>6. OthersConfirmed'
    BY <1>1, <1>2, <1>3 DEF OthersConfirmed, SasTypes
  <1> QED
    BY <1>1, <1>2, <1>4, <1>5, <1>6, OtherUnchanged DEF SasTypes
-----------------------------------------------------------------------------
LEMMA InitSasInv == Init => SasInv
  <1> SUFFICES ASSUME Init PROVE SasInv
    OBVIOUS
  <1>1. inbox \in Seq(Messages(signed))
    BY EmptySeq DEF Init, Sas!Init
  <1>2. other \in [OtherDevices -> Others]
    BY DEF Init, Sas!Init, Sas!None, Others, Ats
  <1>3. SasTypes
    BY <1>1, <1>2 DEF Init, Sas!Init, Sas!None, SasTypes, SasSteps
  <1>4. OthersConfirmed
    BY DEF Init, Sas!Init, OthersConfirmed
  <1>5. PressesAreOfThisAttempt /\ CompleteOnlyIfConfirmed
    BY DEF Init, Sas!Init, PressesAreOfThisAttempt, CompleteOnlyIfConfirmed,
       Sas!CompleteOnlyIfConfirmed
  <1> QED
    BY <1>3, <1>4, <1>5 DEF SasInv

LEMMA StepSasInv == SasInv /\ [Next]_vars => SasInv'
  <1> SUFFICES ASSUME SasInv, [Next]_vars PROVE SasInv'
    OBVIOUS
  <1>1. CASE UNCHANGED sasVars
    BY <1>1 DEF sasVars, SasInv, SasTypes, OthersConfirmed, PressesAreOfThisAttempt,
       CompleteOnlyIfConfirmed, Sas!CompleteOnlyIfConfirmed
  <1>2. CASE Sas!Next
    BY <1>2, EventStep, AcknowledgeStep, UserStep, OtherRequestsStep, OtherReceivesStep,
       OtherConfirmsStep, OtherGivesUpStep DEF Sas!Next
  <1> QED
    BY <1>1, <1>2 DEF Next, vars

(* What holds of the verification in every behaviour.                      *)
THEOREM VerificationInvariant == FairSpec => []SasInv
  BY InitSasInv, StepSasInv, PTL DEF FairSpec

(* An attempt is called complete only if both users confirmed it and the   *)
(* other device signed this one.                                           *)
THEOREM VerificationIsConfirmed == FairSpec => []CompleteOnlyIfConfirmed
  <1>1. SasInv => CompleteOnlyIfConfirmed
    BY DEF SasInv
  <1> QED
    BY <1>1, VerificationInvariant, PTL
-----------------------------------------------------------------------------
(* The list of devices.                                                    *)
Held == {"keys", "signed"}
DeviceLists(S) == UNION {[D -> S] : D \in SUBSET DeviceNames}
ServerKeys == [cross : BOOLEAN, devices : DeviceLists(Held)]
User == [outdated : BOOLEAN, dontSave : BOOLEAN, allDevices : BOOLEAN, cross : BOOLEAN,
         devices : DeviceLists(Held \union {"none"})]

KeyTypes == keys \in [Keys!Users -> ServerKeys]

(* Of the bots all devices are wanted, of the own user one at least.       *)
Wanted(u, x) == (u # Own => x.allDevices) /\ (x.allDevices \/ DOMAIN x.devices # {})

(* Between two steps nobody that is listed waits to be asked for.          *)
ListShape(l) ==
    /\ DOMAIN l \subseteq Keys!Users
    /\ \A u \in DOMAIN l : l[u] \in User /\ Wanted(u, l[u]) /\ ~l[u].outdated

FileShape ==
    /\ DOMAIN file.users \subseteq Keys!Users
    /\ \A u \in DOMAIN file.users :
          /\ file.users[u] \in User
          /\ ~file.users[u].outdated /\ ~file.users[u].dontSave
          /\ u # Own => file.users[u].allDevices

AnswersInv ==
    /\ at # "answer" => answer = Keys!NoAnswer
    /\ ~since => changed = {}
    /\ at = "down" => ~since /\ list = Keys!NoUsers /\ ~needsSave
    /\ at # "failed" /\ needsSave \in BOOLEAN

Excused == changed \union answer.changed \union missed

ListIsCurrent(l) ==
    \A u \in (DOMAIN l \intersect sharing) \ Excused : Keys!Matches(l[u], keys[u])

(* What is in the file is current too, unless it is about to be written.   *)
FileIsCurrent(l) ==
    \A u \in (DOMAIN file.users \intersect sharing) \ Excused :
        \/ needsSave
        \/ u \in DOMAIN l /\ l[u].dontSave
        \/ Keys!Matches(file.users[u], keys[u])

FileIsListed(l) == ~needsSave => DOMAIN file.users \subseteq DOMAIN l

KeysInv ==
    /\ KeyTypes /\ FileShape /\ AnswersInv /\ hasOutdated = FALSE
    /\ ListShape(list) /\ ListIsCurrent(list) /\ FileIsCurrent(list)
    /\ at \notin {"down", "torn"} => FileIsListed(list)
-----------------------------------------------------------------------------
LEMMA DeviceListsDef ==
    ASSUME NEW S, NEW f
    PROVE  f \in DeviceLists(S) <=> DOMAIN f \subseteq DeviceNames /\ f \in [DOMAIN f -> S]
  BY DEF DeviceLists

LEMMA AddingIs ==
    ASSUME NEW f, NEW x, NEW v
    PROVE  /\ DOMAIN Keys!Adding(f, x, v) = DOMAIN f \union {x}
           /\ Keys!Adding(f, x, v)[x] = v
           /\ \A y \in DOMAIN f : y # x => Keys!Adding(f, x, v)[y] = f[y]
  BY DEF Keys!Adding

LEMMA AddingDevice ==
    ASSUME NEW S, NEW f \in DeviceLists(S), NEW d \in DeviceNames, NEW v \in S
    PROVE  Keys!Adding(f, d, v) \in DeviceLists(S)
  <1> DEFINE g == Keys!Adding(f, d, v)
  <1>1. DOMAIN f \subseteq DeviceNames /\ f \in [DOMAIN f -> S]
    BY DeviceListsDef
  <1>2. DOMAIN g \subseteq DeviceNames
    BY <1>1 DEF Keys!Adding
  <1>3. g \in [DOMAIN g -> S]
    BY <1>1 DEF Keys!Adding
  <1> HIDE DEF g
  <1>4. g \in DeviceLists(S)
    BY <1>2, <1>3, DeviceListsDef
  <1> QED
    BY <1>4 DEF g

LEMMA UserFields ==
    ASSUME NEW x \in User
    PROVE  /\ x.outdated \in BOOLEAN /\ x.dontSave \in BOOLEAN /\ x.allDevices \in BOOLEAN
           /\ x.cross \in BOOLEAN /\ x.devices \in DeviceLists(Held \union {"none"})
  BY DEF User

(* What the answer of the server makes of an entry.                        *)
LEMMA FetchedIs ==
    ASSUME keys \in [Keys!Users -> ServerKeys], NEW u \in Keys!Users, NEW x \in User, Wanted(u, x)
    PROVE  /\ Keys!Fetched(u, x) \in User
           /\ Wanted(u, Keys!Fetched(u, x))
           /\ ~Keys!Fetched(u, x).outdated
           /\ Keys!Fetched(u, x).dontSave = ~Keys!HadSomething(u, x)
           /\ Keys!Matches(Keys!Fetched(u, x), keys[u])
  <1> DEFINE k == keys[u]
  <1> DEFINE f == Keys!Devised(u, x)
  <1>1. k \in ServerKeys /\ k.cross \in BOOLEAN /\ k.devices \in DeviceLists(Held)
    BY DEF ServerKeys
  <1>2. x.devices \in DeviceLists(Held \union {"none"}) /\ x.allDevices \in BOOLEAN
    BY UserFields
  <1>3. /\ DOMAIN k.devices \subseteq DeviceNames /\ k.devices \in [DOMAIN k.devices -> Held]
        /\ DOMAIN x.devices \subseteq DeviceNames
        /\ x.devices \in [DOMAIN x.devices -> Held \union {"none"}]
    BY <1>1, <1>2, DeviceListsDef
  <1>4. /\ DOMAIN f = IF x.allDevices THEN DOMAIN k.devices ELSE DOMAIN x.devices
        /\ \A d \in DOMAIN f : f[d] = IF d \in DOMAIN k.devices THEN k.devices[d] ELSE x.devices[d]
        /\ f \in [DOMAIN f -> Held \union {"none"}]
    BY <1>3 DEF Keys!Devised
  <1>5. DOMAIN f \subseteq DeviceNames
    BY <1>3, <1>4
  <1> HIDE DEF f
  <1>6. f \in DeviceLists(Held \union {"none"})
    BY <1>4, <1>5, DeviceListsDef
  <1> DEFINE b == ~Keys!HadSomething(u, x)
  <1>7. b \in BOOLEAN
    OBVIOUS
  <1> HIDE DEF b
  <1> DEFINE y == [x EXCEPT !.cross = k.cross, !.devices = f, !.outdated = FALSE, !.dontSave = b]
  <1>8. /\ y \in User /\ y.cross = k.cross /\ y.devices = f /\ y.outdated = FALSE
        /\ y.dontSave = b /\ y.allDevices = x.allDevices
    BY <1>1, <1>6, <1>7 DEF User
  <1>9. Keys!Fetched(u, x) = y
    BY DEF Keys!Fetched, f, b
  <1> HIDE DEF y
  <1>10. Keys!Matches(y, k)
    <2>1. y.allDevices => DOMAIN y.devices = DOMAIN k.devices
      BY <1>4, <1>8
    <2>2. \A d \in DOMAIN y.devices \intersect DOMAIN k.devices : y.devices[d] = k.devices[d]
      BY <1>4, <1>8
    <2> QED
      BY <1>8, <2>1, <2>2 DEF Keys!Matches, Keys!Outlived
  <1>11. Wanted(u, y)
    BY <1>4, <1>8 DEF Wanted
  <1> QED
    BY <1>8, <1>9, <1>10, <1>11 DEF b
-----------------------------------------------------------------------------
(* Who is listed before anything is asked for: what was changed in the     *)
(* list for one user makes it outdated.                                    *)
Prepared(l0, l, v) ==
    /\ DOMAIN l = DOMAIN l0 \union {v} /\ v \in Keys!Users
    /\ \A u \in DOMAIN l0 : u # v => l[u] = l0[u]
    /\ l[v] \in User /\ Wanted(v, l[v])
    /\ ~l[v].outdated => v \in DOMAIN l0 /\ l = l0

LEMMA WithUserIs ==
    ASSUME NEW l0, NEW v, v \in DOMAIN l0 => l0[v] \in User
    PROVE  /\ DOMAIN Keys!WithUser(l0, v) = DOMAIN l0 \union {v}
           /\ \A u \in DOMAIN l0 : u # v => Keys!WithUser(l0, v)[u] = l0[u]
           /\ Keys!WithUser(l0, v)[v] \in User
           /\ v \in DOMAIN l0 => Keys!WithUser(l0, v) = l0
           /\ v \notin DOMAIN l0 => Keys!WithUser(l0, v)[v] = Keys!NewUser
  <1>1. CASE v \in DOMAIN l0
    BY <1>1 DEF Keys!WithUser
  <1>2. CASE v \notin DOMAIN l0
    <2>1. Keys!WithUser(l0, v) = Keys!Adding(l0, v, Keys!NewUser)
      BY <1>2 DEF Keys!WithUser
    <2>2. Keys!NewUser \in User
      <3>1. Keys!NoDevices \in DeviceLists(Held \union {"none"})
        <4>1. DOMAIN Keys!NoDevices = {} /\ Keys!NoDevices = [d \in {} |-> ""]
          BY DEF Keys!NoDevices
        <4>2. Keys!NoDevices \in [{} -> Held \union {"none"}]
          BY <4>1
        <4> QED
          BY <4>1, <4>2, DeviceListsDef
      <3> QED
        BY <3>1 DEF Keys!NewUser, User
    <2>3. /\ DOMAIN Keys!Adding(l0, v, Keys!NewUser) = DOMAIN l0 \union {v}
          /\ Keys!Adding(l0, v, Keys!NewUser)[v] = Keys!NewUser
          /\ \A u \in DOMAIN l0 : u # v => Keys!Adding(l0, v, Keys!NewUser)[u] = l0[u]
      BY DEF Keys!Adding
    <2> QED
      BY <1>2, <2>1, <2>2, <2>3
  <1> QED
    BY <1>1, <1>2

LEMMA PreparedDevice ==
    ASSUME NEW l0, Own \in DOMAIN l0 => l0[Own] \in User, NEW d \in DeviceNames
    PROVE  Prepared(l0, Keys!WithDevice(Keys!WithUser(l0, Own), Own, d), Own)
  <1> DEFINE m == Keys!WithUser(l0, Own)
  <1> DEFINE l == Keys!WithDevice(m, Own, d)
  <1>1. /\ DOMAIN m = DOMAIN l0 \union {Own}
        /\ \A u \in DOMAIN l0 : u # Own => m[u] = l0[u]
        /\ m[Own] \in User
        /\ Own \in DOMAIN l0 => m = l0
        /\ Own \notin DOMAIN l0 => m[Own] = Keys!NewUser
    BY WithUserIs
  <1>2. Own \in Keys!Users
    BY DEF Keys!Users
  <1> HIDE DEF m
  <1>3. CASE d \in DOMAIN m[Own].devices
    <2>1. l = m
      BY <1>3 DEF Keys!WithDevice
    <2>2. Own \in DOMAIN l0
      <3> SUFFICES ASSUME Own \notin DOMAIN l0 PROVE FALSE
        OBVIOUS
      <3>1. m[Own].devices = Keys!NoDevices
        BY <1>1 DEF Keys!NewUser
      <3>2. DOMAIN m[Own].devices = {}
        BY <3>1 DEF Keys!NoDevices
      <3> QED
        BY <1>3, <3>2
    <2>3. Wanted(Own, m[Own])
      BY <1>3 DEF Wanted
    <2> QED
      BY <1>1, <1>2, <2>1, <2>2, <2>3 DEF Prepared, m
  <1>4. CASE d \notin DOMAIN m[Own].devices
    <2> DEFINE f == Keys!Adding(m[Own].devices, d, "none")
    <2> DEFINE x == [m[Own] EXCEPT !.devices = f, !.outdated = TRUE]
    <2>1. f \in DeviceLists(Held \union {"none"}) /\ d \in DOMAIN f
      <3>1. m[Own].devices \in DeviceLists(Held \union {"none"})
        BY <1>1, UserFields
      <3>2. f \in DeviceLists(Held \union {"none"})
        BY <3>1, AddingDevice
      <3>3. DOMAIN f = DOMAIN m[Own].devices \union {d}
        BY AddingIs
      <3> QED
        BY <3>2, <3>3
    <2> HIDE DEF f
    <2>2. x \in User /\ x.devices = f /\ x.outdated = TRUE
      BY <1>1, <2>1 DEF User
    <2>3. l = [m EXCEPT ![Own] = x]
      BY <1>1, <1>4 DEF Keys!WithDevice, f
    <2> HIDE DEF x
    <2>4. Wanted(Own, x)
      BY <2>1, <2>2 DEF Wanted
    <2> HIDE DEF l
    <2>5. DOMAIN l = DOMAIN m /\ l[Own] = x /\ \A u \in DOMAIN m : u # Own => l[u] = m[u]
      BY <1>1, <2>3
    <2>6. Prepared(l0, l, Own)
      BY <1>1, <1>2, <2>2, <2>4, <2>5 DEF Prepared
    <2> QED
      BY <2>6 DEF l, m
  <1> QED
    BY <1>3, <1>4

LEMMA PreparedAll ==
    ASSUME NEW l0, NEW v \in Keys!Users, v \in DOMAIN l0 => l0[v] \in User
    PROVE  Prepared(l0, Keys!WithAll(Keys!WithUser(l0, v), v), v)
  <1> DEFINE m == Keys!WithUser(l0, v)
  <1> DEFINE l == Keys!WithAll(m, v)
  <1>1. /\ DOMAIN m = DOMAIN l0 \union {v}
        /\ \A u \in DOMAIN l0 : u # v => m[u] = l0[u]
        /\ m[v] \in User
        /\ v \in DOMAIN l0 => m = l0
        /\ v \notin DOMAIN l0 => m[v] = Keys!NewUser
    BY WithUserIs
  <1> HIDE DEF m
  <1>3. CASE m[v].allDevices
    <2>1. l = m
      BY <1>3 DEF Keys!WithAll
    <2>2. v \in DOMAIN l0
      <3> SUFFICES ASSUME v \notin DOMAIN l0 PROVE FALSE
        OBVIOUS
      <3>1. ~m[v].allDevices
        BY <1>1 DEF Keys!NewUser
      <3> QED
        BY <1>3, <3>1
    <2>3. Wanted(v, m[v])
      BY <1>3 DEF Wanted
    <2> QED
      BY <1>1, <2>1, <2>2, <2>3 DEF Prepared, m
  <1>4. CASE ~m[v].allDevices
    <2> DEFINE x == [m[v] EXCEPT !.allDevices = TRUE, !.outdated = TRUE]
    <2>2. x \in User /\ x.allDevices = TRUE /\ x.outdated = TRUE
      BY <1>1 DEF User
    <2>3. l = [m EXCEPT ![v] = x]
      BY <1>1, <1>4 DEF Keys!WithAll
    <2> HIDE DEF x
    <2>4. Wanted(v, x)
      BY <2>2 DEF Wanted
    <2> HIDE DEF l
    <2>5. DOMAIN l = DOMAIN m /\ l[v] = x /\ \A u \in DOMAIN m : u # v => l[u] = m[u]
      BY <1>1, <2>3
    <2>6. Prepared(l0, l, v)
      BY <1>1, <2>2, <2>4, <2>5 DEF Prepared
    <2> QED
      BY <2>6 DEF l, m
  <1> QED
    BY <1>3, <1>4
-----------------------------------------------------------------------------
(* key_list_update_() asks for all that is outdated and fails on nobody.   *)
LEMMA AskedIs ==
    ASSUME KeyTypes, NEW l, DOMAIN l \subseteq Keys!Users,
           \A u \in DOMAIN l : l[u] \in User /\ Wanted(u, l[u]),
           NEW flag \in BOOLEAN, Keys!Outdated(l) # {} => flag
    PROVE  /\ ListShape(Keys!Asked(l, flag))
           /\ DOMAIN Keys!Asked(l, flag) = DOMAIN l
           /\ \A u \in DOMAIN l : ~l[u].outdated => Keys!Asked(l, flag)[u] = l[u]
           /\ \A u \in DOMAIN l : l[u].outdated =>
                 /\ Keys!Matches(Keys!Asked(l, flag)[u], keys[u])
                 /\ Keys!Asked(l, flag)[u].dontSave \/ Keys!GotSomething(l, flag)
           /\ ~Keys!AsksForNone(l)
  <1> DEFINE l2 == Keys!Asked(l, flag)
  <1>1. ~Keys!AsksForNone(l)
    BY DEF Keys!AsksForNone, Keys!Outdated, Wanted
  <1>2. CASE ~flag
    <2>1. l2 = l
      BY <1>2 DEF Keys!Asked
    <2>2. \A u \in DOMAIN l : ~l[u].outdated
      BY <1>2 DEF Keys!Outdated
    <2> QED
      BY <1>1, <2>1, <2>2 DEF ListShape
  <1>3. CASE flag
    <2>1. /\ DOMAIN l2 = DOMAIN l
          /\ \A u \in DOMAIN l : ~l[u].outdated => l2[u] = l[u]
          /\ \A u \in DOMAIN l : l[u].outdated => l2[u] = Keys!Fetched(u, l[u])
      BY <1>3 DEF Keys!Asked
    <2> HIDE DEF l2
    <2>2. ASSUME NEW u \in DOMAIN l, l[u].outdated
          PROVE  /\ l2[u] \in User /\ Wanted(u, l2[u]) /\ ~l2[u].outdated
                 /\ Keys!Matches(l2[u], keys[u])
                 /\ l2[u].dontSave \/ Keys!GotSomething(l, flag)
      <3>1. PICK x \in User : x = l[u] /\ Wanted(u, x)
        OBVIOUS
      <3>2. u \in Keys!Users
        OBVIOUS
      <3>3. /\ Keys!Fetched(u, x) \in User
            /\ Wanted(u, Keys!Fetched(u, x))
            /\ ~Keys!Fetched(u, x).outdated
            /\ Keys!Fetched(u, x).dontSave = ~Keys!HadSomething(u, x)
            /\ Keys!Matches(Keys!Fetched(u, x), keys[u])
        BY <3>1, <3>2, FetchedIs DEF KeyTypes
      <3>4. l2[u] = Keys!Fetched(u, x)
        BY <2>1, <2>2, <3>1
      <3>5. Keys!HadSomething(u, x) => Keys!GotSomething(l, flag)
        BY <1>3, <2>2, <3>1 DEF Keys!GotSomething, Keys!Outdated
      <3> QED
        BY <3>3, <3>4, <3>5
    <2>3. ListShape(l2)
      BY <2>1, <2>2 DEF ListShape
    <2> QED
      BY <1>1, <2>1, <2>2, <2>3 DEF l2
  <1> QED
    BY <1>2, <1>3

(* A use of the list leaves it, and the file, as current as they are.      *)
LEMMA GetKeeps ==
    ASSUME KeyTypes, FileShape, hasOutdated = FALSE, NEW l0, NEW l, NEW v, NEW next,
           Prepared(l0, l, v), DOMAIN l0 \subseteq Keys!Users,
           \A u \in DOMAIN l0 :
              l0[u] \in User /\ ~l0[u].outdated /\ (u # v => Wanted(u, l0[u])),
           ListIsCurrent(l0), FileIsCurrent(l0), FileIsListed(l0),
           Keys!Get(l0, l, v, next), UNCHANGED <<keys, sharing, changed, file, answer>>
    PROVE  /\ ListShape(list)' /\ ListIsCurrent(list)'
           /\ FileIsCurrent(list)' /\ FileIsListed(list)'
           /\ hasOutdated' = hasOutdated /\ at' = next
           /\ needsSave \in BOOLEAN => needsSave' \in BOOLEAN
  <1>1. /\ DOMAIN l = DOMAIN l0 \union {v} /\ v \in Keys!Users
        /\ \A u \in DOMAIN l0 : u # v => l[u] = l0[u]
        /\ l[v] \in User /\ Wanted(v, l[v])
        /\ ~l[v].outdated => v \in DOMAIN l0 /\ l = l0
    BY DEF Prepared
  <1>2. DOMAIN l \subseteq Keys!Users /\ \A u \in DOMAIN l : l[u] \in User /\ Wanted(u, l[u])
    BY <1>1
  <1>3. CASE ~l[v].outdated
    <2>1. l = l0 /\ v \in DOMAIN l0
      BY <1>1, <1>3
    <2>2. list' = l0 /\ at' = next /\ UNCHANGED <<hasOutdated, needsSave, missed>>
      BY <1>3, <2>1 DEF Keys!Get
    <2>3. ListShape(l0)
      BY <1>2, <2>1 DEF ListShape
    <2>4. ListShape(list)'
      BY <2>2, <2>3 DEF ListShape
    <2>5. Excused' = Excused
      BY <2>2 DEF Excused
    <2>6. ListIsCurrent(list)' /\ FileIsCurrent(list)' /\ FileIsListed(list)'
      BY <2>2, <2>5 DEF ListIsCurrent, FileIsCurrent, FileIsListed, Keys!Matches, Keys!Outlived
    <2> QED
      BY <2>2, <2>4, <2>6
  <1>4. CASE l[v].outdated
    <2>1. PICK flag : flag = (hasOutdated \/ Keys!Outdated(l) # Keys!Outdated(l0))
      OBVIOUS
    <2>2. v \in Keys!Outdated(l) /\ Keys!Outdated(l0) = {}
      BY <1>1, <1>4 DEF Keys!Outdated
    <2>3. flag = TRUE
      BY <2>1, <2>2
    <2>4. Keys!Update(l, TRUE, next) /\ needsSave' = (needsSave \/ Keys!GotSomething(l, TRUE))
      BY <1>4, <2>1, <2>3 DEF Keys!Get
    <2>5. PICK l2 : l2 = Keys!Asked(l, TRUE)
      OBVIOUS
    <2>6. /\ ListShape(l2)
          /\ DOMAIN l2 = DOMAIN l
          /\ \A u \in DOMAIN l : ~l[u].outdated => l2[u] = l[u]
          /\ \A u \in DOMAIN l : l[u].outdated =>
                 /\ Keys!Matches(l2[u], keys[u])
                 /\ l2[u].dontSave \/ Keys!GotSomething(l, TRUE)
          /\ ~Keys!AsksForNone(l)
      BY <1>2, <2>5, AskedIs
    <2>7. /\ list' = l2 /\ hasOutdated' = FALSE /\ missed' = missed \ Keys!Outdated(l)
          /\ at' = next
      BY <2>4, <2>5, <2>6 DEF Keys!Update
    <2>8. \A u \in DOMAIN l : ~l[u].outdated => u \in DOMAIN l0 /\ l0[u] = l[u]
      BY <1>1, <1>4
    <2>9. ASSUME NEW u, u \notin Excused', u \notin Keys!Outdated(l) PROVE u \notin Excused
      BY <2>7, <2>9 DEF Excused
    <2>10. ListShape(list)'
      BY <2>6, <2>7 DEF ListShape
    <2>11. ListIsCurrent(list)'
      <3> SUFFICES ASSUME NEW u \in DOMAIN l2 \intersect sharing, u \notin Excused'
                   PROVE  Keys!Matches(l2[u], keys[u])
        BY <2>7 DEF ListIsCurrent, Keys!Matches, Keys!Outlived
      <3>1. CASE l[u].outdated
        BY <2>6, <3>1
      <3>2. CASE ~l[u].outdated
        <4>1. u \in DOMAIN l0 /\ l2[u] = l0[u] /\ u \notin Excused
          BY <2>6, <2>8, <2>9, <3>2 DEF Keys!Outdated
        <4> QED
          BY <4>1 DEF ListIsCurrent
      <3> QED
        BY <3>1, <3>2
    <2>12. FileIsCurrent(list)'
      <3> SUFFICES ASSUME NEW u \in DOMAIN file.users \intersect sharing, u \notin Excused',
                          ~needsSave', u \in DOMAIN l2 => ~l2[u].dontSave
                   PROVE  Keys!Matches(file.users[u], keys[u])
        BY <2>7 DEF FileIsCurrent, Keys!Matches, Keys!Outlived
      <3>1. ~needsSave /\ ~Keys!GotSomething(l, TRUE)
        BY <2>4
      <3>2. u \in DOMAIN l0
        BY <3>1 DEF FileIsListed
      <3>3. u \in DOMAIN l
        BY <1>1, <3>2
      <3>4. ~l[u].outdated
        BY <2>6, <3>1, <3>3
      <3>5. l0[u] = l2[u] /\ u \notin Excused
        BY <2>6, <2>8, <2>9, <3>3, <3>4 DEF Keys!Outdated
      <3> QED
        BY <2>6, <3>1, <3>3, <3>5 DEF FileIsCurrent
    <2>13. FileIsListed(list)'
      BY <1>1, <2>4, <2>6, <2>7 DEF FileIsListed
    <2>14. needsSave' \in BOOLEAN
      BY <2>4
    <2> QED
      BY <2>7, <2>10, <2>11, <2>12, <2>13, <2>14
  <1> QED
    BY <1>3, <1>4
-----------------------------------------------------------------------------
LEMMA DeviceGetStep ==
    ASSUME KeysInv, (\E d \in DeviceNames : Keys!DeviceGet(d)) \/ (\E u \in Bots : Keys!DeviceGetAll(u))
    PROVE  KeysInv'
  <1>1. /\ Keys!Working /\ UNCHANGED <<keys, sharing, changed, since, file, answer>>
    BY DEF Keys!DeviceGet, Keys!DeviceGetAll, Keys!serverVars
  <1>2. at \in {"up", "answer"}
    BY <1>1 DEF Keys!Working
  <1>3. PICK l, v : Prepared(list, l, v) /\ Keys!Get(list, l, v, at)
    <2>1. CASE \E d \in DeviceNames : Keys!DeviceGet(d)
      <3>1. PICK d \in DeviceNames : Keys!DeviceGet(d)
        BY <2>1
      <3>2. PICK l : l = Keys!WithDevice(Keys!WithUser(list, Own), Own, d)
        OBVIOUS
      <3>3. Keys!Get(list, l, Own, at)
        BY <3>1, <3>2 DEF Keys!DeviceGet
      <3>4. Own \in DOMAIN list => list[Own] \in User
        BY DEF KeysInv, ListShape
      <3>5. Prepared(list, l, Own)
        BY <3>2, <3>4, PreparedDevice
      <3> QED
        BY <3>3, <3>5
    <2>2. CASE \E u \in Bots : Keys!DeviceGetAll(u)
      <3>1. PICK u \in Bots : Keys!DeviceGetAll(u)
        BY <2>2
      <3>2. PICK l : l = Keys!WithAll(Keys!WithUser(list, u), u)
        OBVIOUS
      <3>3. Keys!Get(list, l, u, at)
        BY <3>1, <3>2 DEF Keys!DeviceGetAll
      <3>4. u \in DOMAIN list => list[u] \in User
        BY DEF KeysInv, ListShape
      <3>5. Prepared(list, l, u)
        BY <3>2, <3>4, PreparedAll DEF Keys!Users
      <3> QED
        BY <3>3, <3>5
    <2> QED
      BY <2>1, <2>2
  <1>4. KeyTypes /\ FileShape /\ hasOutdated = FALSE /\ ListShape(list)
        /\ ListIsCurrent(list) /\ FileIsCurrent(list) /\ FileIsListed(list)
    BY <1>2 DEF KeysInv
  <1>5. /\ DOMAIN list \subseteq Keys!Users
        /\ \A u \in DOMAIN list : list[u] \in User /\ ~list[u].outdated /\ (u # v => Wanted(u, list[u]))
    BY <1>4 DEF ListShape
  <1>6. UNCHANGED <<keys, sharing, changed, file, answer>>
    BY <1>1
  <1>7. /\ ListShape(list)' /\ ListIsCurrent(list)'
        /\ FileIsCurrent(list)' /\ FileIsListed(list)'
        /\ hasOutdated' = hasOutdated /\ at' = at
        /\ needsSave \in BOOLEAN => needsSave' \in BOOLEAN
    BY <1>3, <1>4, <1>5, <1>6, GetKeeps
  <1>8. AnswersInv'
    BY <1>1, <1>2, <1>7 DEF KeysInv, AnswersInv
  <1>9. KeyTypes' /\ FileShape'
    BY <1>1 DEF KeysInv, KeyTypes, FileShape
  <1> QED
    BY <1>4, <1>7, <1>8, <1>9 DEF KeysInv

(* A start has from the file what it would have kept in memory.            *)
LEMMA StartStep ==
    ASSUME KeysInv, Keys!Start
    PROVE  KeysInv'
  <1>1. at = "down" /\ UNCHANGED <<keys, sharing, changed, since, file, answer>>
    BY DEF Keys!Start, Keys!serverVars
  <1>2. ~since /\ list = Keys!NoUsers /\ needsSave = FALSE /\ changed = {} /\ answer = Keys!NoAnswer
    BY <1>1 DEF KeysInv, AnswersInv
  <1>3. KeyTypes /\ FileShape /\ hasOutdated = FALSE
    BY DEF KeysInv
  <1>4. \A u \in DOMAIN file.users :
           file.users[u] \in User /\ ~file.users[u].outdated /\ (u # Own => Wanted(u, file.users[u]))
    BY <1>3 DEF FileShape, Wanted
  <1>5. DOMAIN list = {}
    BY <1>2 DEF Keys!NoUsers
  <1>6. \A u \in (DOMAIN file.users \intersect sharing) \ Excused : Keys!Matches(file.users[u], keys[u])
    BY <1>2, <1>5 DEF KeysInv, FileIsCurrent
  <1>7. ListIsCurrent(file.users) /\ FileIsCurrent(file.users) /\ FileIsListed(file.users)
    BY <1>6 DEF ListIsCurrent, FileIsCurrent, FileIsListed
  <1>8. PICK l0 : l0 = file.users
    OBVIOUS
  <1>9. PICK l : l = Keys!WithDevice(Keys!WithUser(l0, Own), Own, ThisDevice)
    OBVIOUS
  <1>10. PICK next \in {"up", "upload"} :
            next = IF ThisDevice \in DOMAIN keys[Own].devices THEN "up" ELSE "upload"
    OBVIOUS
  <1>11. Keys!Get(l0, l, Own, next)
    BY <1>8, <1>9, <1>10 DEF Keys!Start
  <1>12. Prepared(l0, l, Own)
    BY <1>4, <1>8, <1>9, PreparedDevice, DevicesAssumption
  <1>13. /\ ListIsCurrent(l0) /\ FileIsCurrent(l0) /\ FileIsListed(l0)
         /\ DOMAIN l0 \subseteq Keys!Users
         /\ \A u \in DOMAIN l0 : l0[u] \in User /\ ~l0[u].outdated /\ (u # Own => Wanted(u, l0[u]))
    BY <1>3, <1>4, <1>7, <1>8 DEF FileShape
  <1>14. UNCHANGED <<keys, sharing, changed, file, answer>>
    BY <1>1
  <1>15. /\ ListShape(list)' /\ ListIsCurrent(list)'
         /\ FileIsCurrent(list)' /\ FileIsListed(list)'
         /\ hasOutdated' = hasOutdated /\ at' = next
         /\ needsSave \in BOOLEAN => needsSave' \in BOOLEAN
    BY <1>3, <1>11, <1>12, <1>13, <1>14, GetKeeps
  <1>16. AnswersInv'
    BY <1>1, <1>2, <1>10, <1>15 DEF AnswersInv, Keys!NoAnswer
  <1>17. KeyTypes' /\ FileShape'
    BY <1>1, <1>3 DEF KeyTypes, FileShape
  <1> QED
    BY <1>3, <1>15, <1>16, <1>17 DEF KeysInv
-----------------------------------------------------------------------------
(* The end of an answer and of the program: what is listed is asked for,   *)
(* and written if the file is not as it.                                   *)
Saves(l, flag, needs, writing, done, named) ==
    /\ at \notin {"down", "torn"} /\ flag \in BOOLEAN /\ needs \in BOOLEAN
    /\ DOMAIN l \subseteq DOMAIN list
    /\ \A u \in DOMAIN l : l[u] \in User /\ Wanted(u, l[u])
    /\ \A u \in DOMAIN l : ~l[u].outdated => u \notin named /\ l[u] = list[u]
    /\ Keys!Outdated(l) # {} => flag
    /\ ~needs => ~needsSave /\ DOMAIN l = DOMAIN list
    /\ Keys!Save(l, flag, needs, writing, done) /\ writing # "failed" /\ done # "failed"
    /\ UNCHANGED <<keys, sharing, changed>>
    /\ Excused \subseteq changed \union missed \union named
    /\ answer'.changed = {}

LEMMA SaveKeeps ==
    ASSUME KeysInv, NEW l, NEW flag, NEW needs, NEW writing, NEW done, NEW named,
           Saves(l, flag, needs, writing, done, named)
    PROVE  /\ ListShape(list)' /\ ListIsCurrent(list)'
           /\ FileIsCurrent(list)' /\ FileIsListed(list)' /\ FileShape'
           /\ hasOutdated' = FALSE /\ needsSave' = FALSE /\ at' \in {writing, done}
  <1> USE DEF Saves
  <1>1. /\ KeyTypes /\ FileShape /\ ListShape(list) /\ ListIsCurrent(list) /\ FileIsCurrent(list)
        /\ FileIsListed(list)
    BY DEF KeysInv
  <1>2. DOMAIN l \subseteq Keys!Users /\ flag \in BOOLEAN
    BY <1>1 DEF ListShape
  <1>3. PICK l2 : l2 = Keys!Asked(l, flag)
    OBVIOUS
  <1>4. /\ ListShape(l2)
        /\ DOMAIN l2 = DOMAIN l
        /\ \A u \in DOMAIN l : ~l[u].outdated => l2[u] = l[u]
        /\ \A u \in DOMAIN l : l[u].outdated =>
               /\ Keys!Matches(l2[u], keys[u])
               /\ l2[u].dontSave \/ Keys!GotSomething(l, flag)
        /\ ~Keys!AsksForNone(l)
    BY <1>1, <1>2, <1>3, AskedIs
  <1>5. PICK write \in BOOLEAN : write = (needs \/ Keys!GotSomething(l, flag))
    BY DEF Keys!GotSomething
  <1>6. Keys!Update(l, flag, IF write THEN writing ELSE done) /\ needsSave' = FALSE
        /\ file' = IF write /\ at' # "failed" THEN Keys!Torn ELSE file
    BY <1>5 DEF Keys!Save
  <1>7. /\ list' = l2 /\ hasOutdated' = FALSE
        /\ missed \ Keys!Outdated(l) \subseteq missed'
        /\ at' = IF write THEN writing ELSE done
    BY <1>3, <1>4, <1>6 DEF Keys!Update
  <1>8. file' = IF write THEN Keys!Torn ELSE file
    BY <1>6, <1>7
  <1>9. DOMAIN Keys!Torn.users = {}
    BY DEF Keys!Torn, Keys!NoUsers
  <1>10. ListShape(list)'
    BY <1>4, <1>7 DEF ListShape
  <1>11. ASSUME NEW u \in DOMAIN l, ~l[u].outdated, u \notin Excused' PROVE u \notin Excused
    BY <1>7, <1>11 DEF Excused, Keys!Outdated
  <1>12. ListIsCurrent(list)'
    <2> SUFFICES ASSUME NEW u \in DOMAIN l2 \intersect sharing, u \notin Excused'
                 PROVE  Keys!Matches(l2[u], keys[u])
      BY <1>7 DEF ListIsCurrent, Keys!Matches, Keys!Outlived
    <2>1. CASE l[u].outdated
      BY <1>4, <2>1
    <2>2. CASE ~l[u].outdated
      <3>1. l2[u] = list[u] /\ u \in DOMAIN list /\ u \notin Excused
        BY <1>4, <1>11, <2>2
      <3> QED
        BY <1>1, <3>1 DEF ListIsCurrent
    <2> QED
      BY <2>1, <2>2
  <1>13. FileIsCurrent(list)' /\ FileIsListed(list)' /\ FileShape'
    <2>1. CASE write
      <3>1. DOMAIN file'.users = {}
        BY <1>8, <1>9, <2>1
      <3> QED
        BY <3>1 DEF FileIsCurrent, FileIsListed, FileShape
    <2>2. CASE ~write
      <3>1. ~needs /\ ~Keys!GotSomething(l, flag) /\ file' = file
        BY <1>5, <1>8, <2>2
      <3>2. DOMAIN file.users \subseteq DOMAIN l /\ DOMAIN l = DOMAIN list
        BY <1>1, <3>1 DEF FileIsListed
      <3>3. FileIsListed(list)' /\ FileShape'
        BY <1>1, <1>4, <1>7, <3>1, <3>2 DEF FileIsListed, FileShape
      <3>4. FileIsCurrent(list)'
        <4> SUFFICES ASSUME NEW u \in DOMAIN file.users \intersect sharing, u \notin Excused',
                            u \in DOMAIN l2 => ~l2[u].dontSave
                     PROVE  Keys!Matches(file.users[u], keys[u])
          BY <1>7, <3>1 DEF FileIsCurrent, Keys!Matches, Keys!Outlived
        <4>1. u \in DOMAIN l
          BY <3>2
        <4>2. ~l[u].outdated
          BY <1>4, <3>1, <4>1
        <4>3. u \notin Excused /\ l2[u] = list[u]
          BY <1>4, <1>11, <4>1, <4>2
        <4> QED
          BY <1>1, <1>4, <3>1, <3>2, <4>1, <4>3 DEF FileIsCurrent
      <3> QED
        BY <3>3, <3>4
    <2> QED
      BY <2>1, <2>2
  <1> QED
    BY <1>6, <1>7, <1>10, <1>12, <1>13
-----------------------------------------------------------------------------
LEMMA AnswerStep ==
    ASSUME KeysInv, Keys!Answer \/ Keys!StartTorn
    PROVE  KeysInv'
  <1>1. CASE Keys!Answer
    <2>1. /\ at = "up" /\ at' = "answer" /\ since' = TRUE /\ changed' = {}
          /\ answer' = IF since THEN [changed |-> changed, left |-> left] ELSE Keys!NoAnswer
          /\ UNCHANGED <<keys, sharing, list, hasOutdated, needsSave, file, missed>>
      BY <1>1 DEF Keys!Answer, Keys!listVars
    <2>2. answer'.changed = changed /\ answer.changed = {}
      BY <2>1 DEF KeysInv, AnswersInv, Keys!NoAnswer
    <2>3. Excused' = Excused
      BY <2>1, <2>2 DEF Excused
    <2>4. AnswersInv'
      BY <2>1 DEF KeysInv, AnswersInv
    <2> QED
      BY <2>1, <2>3, <2>4 DEF KeysInv, KeyTypes, ListShape, FileShape, ListIsCurrent,
         FileIsCurrent, FileIsListed, Keys!Matches, Keys!Outlived
  <1>2. CASE Keys!StartTorn
    <2>1. /\ at = "down" /\ at' = "torn"
          /\ UNCHANGED <<keys, sharing, changed, since, list, hasOutdated, needsSave, file,
                         answer, missed>>
      BY <1>2 DEF Keys!StartTorn, Keys!listVars, Keys!serverVars
    <2>2. AnswersInv'
      BY <2>1 DEF KeysInv, AnswersInv
    <2> QED
      BY <2>1, <2>2 DEF KeysInv, KeyTypes, ListShape, FileShape, ListIsCurrent,
         FileIsCurrent, FileIsListed, Keys!Matches, Keys!Outlived, Excused
  <1> QED
    BY <1>1, <1>2

LEMMA OutdatedIs ==
    ASSUME NEW x \in User, ~x.outdated, NEW b \in BOOLEAN
    PROVE  /\ [x EXCEPT !.outdated = x.outdated \/ b] \in User
           /\ [x EXCEPT !.outdated = x.outdated \/ b].outdated = b
           /\ [x EXCEPT !.outdated = x.outdated \/ b].allDevices = x.allDevices
           /\ [x EXCEPT !.outdated = x.outdated \/ b].devices = x.devices
           /\ ~b => [x EXCEPT !.outdated = x.outdated \/ b] = x
  <1>1. x.outdated = FALSE
    BY DEF User
  <1>2. (x.outdated \/ b) = b
    BY <1>1
  <1>3. /\ [x EXCEPT !.outdated = b] \in User
        /\ [x EXCEPT !.outdated = b].outdated = b
        /\ [x EXCEPT !.outdated = b].allDevices = x.allDevices
        /\ [x EXCEPT !.outdated = b].devices = x.devices
    BY DEF User
  <1>4. [x EXCEPT !.outdated = FALSE] = x
    BY <1>1 DEF User
  <1> QED
    BY <1>2, <1>3, <1>4

LEMMA EndOfAnswerStep ==
    ASSUME KeysInv, Keys!EndOfAnswer
    PROVE  KeysInv'
  <1>1. /\ at = "answer" /\ answer' = Keys!NoAnswer
        /\ UNCHANGED <<keys, sharing, changed, since>>
    BY DEF Keys!EndOfAnswer, Keys!serverVars
  <1>2. ListShape(list) /\ hasOutdated = FALSE /\ needsSave \in BOOLEAN
    BY DEF KeysInv, AnswersInv
  <1>3. PICK l : l = Keys!Applied
    OBVIOUS
  <1>4. PICK flag \in BOOLEAN : flag = (hasOutdated \/ Keys!Stays \intersect answer.changed # {})
    OBVIOUS
  <1>5. PICK needs \in BOOLEAN : needs = (needsSave \/ Keys!Stays # DOMAIN list)
    OBVIOUS
  <1>6. Keys!Save(l, flag, needs, "writing", "up")
    BY <1>3, <1>4, <1>5 DEF Keys!EndOfAnswer, Keys!NotesOutdated
  <1>7. DOMAIN l = Keys!Stays /\ DOMAIN l \subseteq DOMAIN list
    BY <1>3 DEF Keys!Applied, Keys!Stays
  <1>8. ASSUME NEW u \in DOMAIN l
        PROVE  /\ l[u] \in User /\ Wanted(u, l[u])
               /\ l[u].outdated <=> u \in answer.changed
               /\ ~l[u].outdated => l[u] = list[u]
    <2>1. PICK b \in BOOLEAN : b <=> u \in answer.changed
      <3>1. CASE u \in answer.changed
        BY <3>1
      <3>2. CASE u \notin answer.changed
        BY <3>2
      <3> QED
        BY <3>1, <3>2
    <2>2. PICK x \in User : x = list[u] /\ ~x.outdated /\ Wanted(u, x)
      BY <1>2, <1>7 DEF ListShape
    <2>3. l[u] = [x EXCEPT !.outdated = x.outdated \/ b]
      <3>1. l[u] = [x EXCEPT !.outdated = x.outdated \/ u \in answer.changed]
        BY <1>3, <1>7, <2>2 DEF Keys!Applied
      <3>2. (x.outdated \/ u \in answer.changed) = (x.outdated \/ b)
        BY <2>1
      <3> QED
        BY <3>1, <3>2
    <2>4. l[u] \in User /\ l[u].outdated = b /\ l[u].allDevices = x.allDevices
          /\ l[u].devices = x.devices /\ (~b => l[u] = x)
      BY <2>2, <2>3, OutdatedIs
    <2> QED
      BY <2>1, <2>2, <2>4 DEF Wanted
  <1>9. Keys!Outdated(l) # {} => flag
    BY <1>4, <1>7, <1>8 DEF Keys!Outdated
  <1>11. ~needs => ~needsSave /\ DOMAIN l = DOMAIN list
    BY <1>5, <1>7
  <1>13. \A u \in DOMAIN l : l[u] \in User /\ Wanted(u, l[u])
    BY <1>8
  <1>14. UNCHANGED <<keys, sharing, changed>> /\ at \notin {"down", "torn"}
    BY <1>1
  <1>15. PICK named : named = answer.changed
    OBVIOUS
  <1>10. \A u \in DOMAIN l : ~l[u].outdated => u \notin named /\ l[u] = list[u]
    BY <1>8, <1>15
  <1>12. Excused \subseteq changed \union missed \union named /\ answer'.changed = {}
    BY <1>1, <1>15 DEF Excused, Keys!NoAnswer
  <1>19. PICK writing, done : writing = "writing" /\ done = "up" /\ writing # "failed" /\ done # "failed"
    OBVIOUS
  <1>20. Keys!Save(l, flag, needs, writing, done)
    BY <1>6, <1>19
  <1>16. /\ ListShape(list)' /\ ListIsCurrent(list)'
         /\ FileIsCurrent(list)' /\ FileIsListed(list)' /\ FileShape'
         /\ hasOutdated' = FALSE /\ needsSave' = FALSE /\ at' \in {writing, done}
    <2>1. Saves(l, flag, needs, writing, done, named)
      BY <1>7, <1>9, <1>10, <1>11, <1>12, <1>13, <1>14, <1>19, <1>20 DEF Saves
    <2> QED
      BY <2>1, SaveKeeps
  <1>17. AnswersInv'
    BY <1>1, <1>16, <1>19 DEF KeysInv, AnswersInv
  <1>18. KeyTypes'
    BY <1>1 DEF KeysInv, KeyTypes
  <1> QED
    BY <1>1, <1>16, <1>17, <1>18 DEF KeysInv

LEMMA CloseStep ==
    ASSUME KeysInv, Keys!Close
    PROVE  KeysInv'
  <1>1. at = "up" /\ UNCHANGED <<keys, sharing, changed, since, answer>>
    BY DEF Keys!Close, Keys!serverVars
  <1>2. ListShape(list) /\ hasOutdated = FALSE /\ needsSave \in BOOLEAN /\ answer = Keys!NoAnswer
    BY <1>1 DEF KeysInv, AnswersInv
  <1>3. PICK needs \in BOOLEAN : needs = needsSave
    BY <1>2
  <1>4. PICK l : l = list
    OBVIOUS
  <1>5. Keys!Save(l, FALSE, needs, "lastWrite", "closed")
    BY <1>2, <1>3, <1>4 DEF Keys!Close
  <1>6. /\ DOMAIN l \subseteq DOMAIN list
        /\ \A u \in DOMAIN l : l[u] \in User /\ Wanted(u, l[u])
        /\ \A u \in DOMAIN l : ~l[u].outdated => u \notin {} /\ l[u] = list[u]
        /\ Keys!Outdated(l) # {} => FALSE
        /\ ~needs => ~needsSave /\ DOMAIN l = DOMAIN list
    BY <1>2, <1>3, <1>4 DEF ListShape, Keys!Outdated
  <1>7. Excused \subseteq changed \union missed \union {} /\ answer'.changed = {}
    BY <1>1, <1>2 DEF Excused, Keys!NoAnswer
  <1>8. UNCHANGED <<keys, sharing, changed>> /\ at \notin {"down", "torn"}
    BY <1>1
  <1>9. PICK flag \in BOOLEAN : flag = FALSE
    OBVIOUS
  <1>13. PICK named : named = {}
    OBVIOUS
  <1>14. PICK writing, done : writing = "lastWrite" /\ done = "closed" /\ writing # "failed" /\ done # "failed"
    OBVIOUS
  <1>15. Keys!Save(l, flag, needs, writing, done)
    BY <1>5, <1>9, <1>14
  <1>16. /\ DOMAIN l \subseteq DOMAIN list
         /\ \A u \in DOMAIN l : l[u] \in User /\ Wanted(u, l[u])
         /\ \A u \in DOMAIN l : ~l[u].outdated => u \notin named /\ l[u] = list[u]
         /\ Keys!Outdated(l) # {} => flag
         /\ ~needs => ~needsSave /\ DOMAIN l = DOMAIN list
    BY <1>6, <1>13
  <1>17. Excused \subseteq changed \union missed \union named /\ answer'.changed = {}
    BY <1>7, <1>13
  <1>10. /\ ListShape(list)' /\ ListIsCurrent(list)'
         /\ FileIsCurrent(list)' /\ FileIsListed(list)' /\ FileShape'
         /\ hasOutdated' = FALSE /\ needsSave' = FALSE /\ at' \in {writing, done}
    <2>1. Saves(l, flag, needs, writing, done, named)
      BY <1>8, <1>14, <1>15, <1>16, <1>17 DEF Saves
    <2> QED
      BY <2>1, SaveKeeps
  <1>11. AnswersInv'
    BY <1>1, <1>10, <1>14 DEF KeysInv, AnswersInv
  <1>12. KeyTypes'
    BY <1>1 DEF KeysInv, KeyTypes
  <1> QED
    BY <1>10, <1>11, <1>12 DEF KeysInv
-----------------------------------------------------------------------------
(* What is in the file of an entry that is current is current.             *)
LEMMA SavedIs ==
    ASSUME NEW k \in ServerKeys, NEW x \in User, NEW y,
           y = [x EXCEPT !.devices = Keys!SavedDevices(x), !.outdated = FALSE]
    PROVE  /\ y \in User /\ ~y.outdated /\ y.dontSave = x.dontSave
           /\ y.allDevices = x.allDevices
           /\ Keys!Matches(x, k) => Keys!Matches(y, k)
  <1> DEFINE f == Keys!SavedDevices(x)
  <1>1. x.devices \in DeviceLists(Held \union {"none"}) /\ k.devices \in DeviceLists(Held)
    BY DEF User, ServerKeys
  <1>2. /\ DOMAIN k.devices \subseteq DeviceNames /\ k.devices \in [DOMAIN k.devices -> Held]
        /\ DOMAIN x.devices \subseteq DeviceNames
        /\ x.devices \in [DOMAIN x.devices -> Held \union {"none"}]
    BY <1>1, DeviceListsDef
  <1>3. /\ DOMAIN f = {d \in DOMAIN x.devices : x.devices[d] # "none"}
        /\ \A d \in DOMAIN f : f[d] = x.devices[d]
        /\ f \in [DOMAIN f -> Held \union {"none"}]
    BY <1>2 DEF Keys!SavedDevices
  <1>4. DOMAIN f \subseteq DeviceNames
    BY <1>2, <1>3
  <1> HIDE DEF f
  <1>5. f \in DeviceLists(Held \union {"none"})
    BY <1>3, <1>4, DeviceListsDef
  <1>6. /\ y \in User /\ y.outdated = FALSE /\ y.dontSave = x.dontSave
        /\ y.allDevices = x.allDevices /\ y.devices = f /\ y.cross = x.cross
    BY <1>5 DEF User, f
  <1>7. ASSUME Keys!Matches(x, k) PROVE Keys!Matches(y, k)
    <2>1. /\ x.cross = k.cross
          /\ x.allDevices => DOMAIN x.devices = DOMAIN k.devices
          /\ \A d \in DOMAIN x.devices \intersect DOMAIN k.devices : x.devices[d] = k.devices[d]
      BY <1>7 DEF Keys!Matches, Keys!Outlived
    <2>2. \A d \in DOMAIN k.devices : k.devices[d] # "none"
      BY <1>2 DEF Held
    <2>3. x.allDevices => DOMAIN f = DOMAIN k.devices
      BY <1>3, <2>1, <2>2
    <2>4. \A d \in DOMAIN f \intersect DOMAIN k.devices : f[d] = k.devices[d]
      BY <1>3, <2>1
    <2> QED
      BY <1>6, <2>1, <2>3, <2>4 DEF Keys!Matches, Keys!Outlived
  <1> QED
    BY <1>6, <1>7

LEMMA WriteStep ==
    ASSUME KeysInv, Keys!Write
    PROVE  KeysInv'
  <1>1. /\ at \in {"writing", "lastWrite"} /\ at' \in {"up", "closed"}
        /\ UNCHANGED <<keys, sharing, changed, since, list, hasOutdated, needsSave, answer, missed>>
    BY DEF Keys!Write, Keys!serverVars, Keys!listVars
  <1>2. KeyTypes /\ ListShape(list) /\ ListIsCurrent(list)
    BY DEF KeysInv
  <1>3. PICK g : g = file'.users
    OBVIOUS
  <1>4. /\ DOMAIN g = {u \in DOMAIN list : ~list[u].dontSave}
        /\ \A u \in DOMAIN g :
              g[u] = [list[u] EXCEPT !.devices = Keys!SavedDevices(list[u]), !.outdated = FALSE]
    BY <1>3 DEF Keys!Write
  <1>5. ASSUME NEW u \in DOMAIN g
        PROVE  /\ g[u] \in User /\ ~g[u].outdated /\ ~g[u].dontSave
               /\ u # Own => g[u].allDevices
               /\ Keys!Matches(list[u], keys[u]) => Keys!Matches(g[u], keys[u])
    <2>1. PICK x \in User : x = list[u] /\ Wanted(u, x) /\ ~x.dontSave
      BY <1>2, <1>4 DEF ListShape
    <2>2. PICK y : y = g[u]
      OBVIOUS
    <2>3. y = [x EXCEPT !.devices = Keys!SavedDevices(x), !.outdated = FALSE]
      BY <1>4, <2>1, <2>2
    <2>4. PICK k \in ServerKeys : k = keys[u]
      BY <1>2, <1>4 DEF KeyTypes, ListShape
    <2>5. /\ y \in User /\ ~y.outdated /\ y.dontSave = x.dontSave
          /\ y.allDevices = x.allDevices
          /\ Keys!Matches(x, k) => Keys!Matches(y, k)
      BY <2>3, SavedIs
    <2> QED
      BY <2>1, <2>2, <2>4, <2>5 DEF Wanted
  <1>6. FileShape'
    BY <1>2, <1>3, <1>4, <1>5 DEF FileShape, ListShape
  <1>7. Excused' = Excused
    BY <1>1 DEF Excused
  <1>8. FileIsCurrent(list)'
    <2> SUFFICES ASSUME NEW u \in DOMAIN g \intersect sharing, u \notin Excused
                 PROVE  Keys!Matches(g[u], keys[u])
      BY <1>1, <1>3, <1>7 DEF FileIsCurrent, Keys!Matches, Keys!Outlived
    <2>1. Keys!Matches(list[u], keys[u])
      BY <1>2, <1>4 DEF ListIsCurrent
    <2> QED
      BY <1>5, <2>1
  <1>9. FileIsListed(list)'
    BY <1>1, <1>3, <1>4 DEF FileIsListed
  <1>10. KeyTypes' /\ ListShape(list)' /\ ListIsCurrent(list)' /\ AnswersInv'
    BY <1>1, <1>2, <1>7 DEF KeysInv, KeyTypes, ListShape, ListIsCurrent, AnswersInv,
                            Keys!Matches, Keys!Outlived
  <1> QED
    BY <1>1, <1>6, <1>8, <1>9, <1>10 DEF KeysInv

(* The program ends: what the file does not know, the server does not      *)
(* tell either.                                                            *)
LEMMA DieStep ==
    ASSUME KeysInv, Keys!Die
    PROVE  KeysInv'
  <1>1. /\ at \notin {"down", "torn"} /\ at' = "down"
        /\ missed' = missed \union changed \union answer.changed \union Keys!Unsaved
        /\ list' = Keys!NoUsers /\ hasOutdated' = FALSE /\ needsSave' = FALSE
        /\ answer' = Keys!NoAnswer /\ since' = FALSE /\ changed' = {}
        /\ UNCHANGED <<keys, sharing, file>>
    BY DEF Keys!Die
  <1>2. DOMAIN list' = {}
    BY <1>1 DEF Keys!NoUsers
  <1>3. ListShape(list)' /\ ListIsCurrent(list)'
    BY <1>2 DEF ListShape, ListIsCurrent
  <1>4. FileIsCurrent(list)'
    <2> SUFFICES ASSUME NEW u \in DOMAIN file.users \intersect sharing, u \notin missed'
                 PROVE  Keys!Matches(file.users[u], keys[u])
      BY <1>1 DEF FileIsCurrent, Excused, Keys!Matches, Keys!Outlived
    <2>1. u \notin Excused /\ u \notin Keys!Unsaved
      BY <1>1 DEF Excused
    <2>2. ~needsSave /\ ~(u \in DOMAIN list /\ list[u].dontSave)
      BY <2>1 DEF Keys!Unsaved
    <2> QED
      BY <2>1, <2>2 DEF KeysInv, FileIsCurrent
  <1>5. KeyTypes' /\ FileShape' /\ AnswersInv'
    BY <1>1 DEF KeysInv, KeyTypes, FileShape, AnswersInv
  <1> QED
    BY <1>1, <1>3, <1>4, <1>5 DEF KeysInv
-----------------------------------------------------------------------------
(* What happens at the server changes nobody whom no answer will name.     *)
Happens ==
    /\ UNCHANGED <<since, list, hasOutdated, needsSave, file, answer>>
    /\ at' = at \/ (at = "upload" /\ at' = "up")
    /\ ~since => changed' = {}
    /\ keys' \in [Keys!Users -> ServerKeys]
    /\ \A u \in Keys!Users \intersect sharing' :
          u \notin Excused' => u \in sharing /\ u \notin Excused /\ keys'[u] = keys[u]

LEMMA HappensStep ==
    ASSUME KeysInv, Happens
    PROVE  KeysInv'
  <1> USE DEF KeysInv, Happens
  <1>1. KeyTypes' /\ ListShape(list)' /\ FileShape' /\ AnswersInv'
    BY DEF KeyTypes, ListShape, FileShape, AnswersInv
  <1>2. ListIsCurrent(list)'
    <2> SUFFICES ASSUME NEW u \in DOMAIN list \intersect sharing', u \notin Excused'
                 PROVE  Keys!Matches(list[u], keys'[u])
      BY DEF ListIsCurrent, Keys!Matches, Keys!Outlived
    <2> QED
      BY DEF ListShape, ListIsCurrent
  <1>3. FileIsCurrent(list)'
    <2> SUFFICES ASSUME NEW u \in DOMAIN file.users \intersect sharing', u \notin Excused',
                        ~needsSave, ~(u \in DOMAIN list /\ list[u].dontSave)
                 PROVE  Keys!Matches(file.users[u], keys'[u])
      BY DEF FileIsCurrent, Keys!Matches, Keys!Outlived
    <2> QED
      BY DEF FileShape, FileIsCurrent
  <1>4. at' \notin {"down", "torn"} => FileIsListed(list)'
    BY DEF FileIsListed
  <1> QED
    BY <1>1, <1>2, <1>3, <1>4

LEMMA ChangeHappens ==
    ASSUME KeysInv, NEW u \in Keys!Users, NEW k \in ServerKeys, keys' = [keys EXCEPT ![u] = k],
           Keys!Tells(u), at' = at \/ (at = "upload" /\ at' = "up"),
           UNCHANGED <<sharing, since, list, hasOutdated, needsSave, file, answer>>
    PROVE  Happens
  <1>1. keys \in [Keys!Users -> ServerKeys] /\ (~since => changed = {})
    BY DEF KeysInv, KeyTypes, AnswersInv
  <1>2. u \in Excused' /\ Excused \subseteq Excused' /\ (~since => changed' = {})
    BY <1>1 DEF Keys!Tells, Excused
  <1> QED
    BY <1>1, <1>2 DEF Happens

LEMMA KeysWithDevices ==
    ASSUME NEW k \in ServerKeys, NEW f \in DeviceLists(Held)
    PROVE  [k EXCEPT !.devices = f] \in ServerKeys
  BY DEF ServerKeys

LEMMA ServerStep ==
    ASSUME KeysInv,
           \/ Keys!Upload
           \/ \E u \in Bots : Keys!Leave(u) \/ Keys!Join(u)
           \/ \E u \in Keys!Users : Keys!CrossSign(u)
           \/ \E u \in Keys!Users, d \in DeviceNames :
                 Keys!NewDevice(u, d) \/ Keys!LogOut(u, d) \/ Keys!SignDevice(u, d)
    PROVE  KeysInv'
  <1>1. keys \in [Keys!Users -> ServerKeys] /\ (~since => changed = {})
    BY DEF KeysInv, KeyTypes, AnswersInv
  <1>2. ASSUME NEW u \in Keys!Users
        PROVE  keys[u] \in ServerKeys /\ keys[u].devices \in DeviceLists(Held)
    BY <1>1 DEF ServerKeys
  <1>3. CASE Keys!Upload
    <2>1. Own \in Keys!Users
      BY DEF Keys!Users
    <2>2. PICK f : f = Keys!Adding(keys[Own].devices, ThisDevice, "keys")
      OBVIOUS
    <2>3. f \in DeviceLists(Held)
      BY <1>2, <2>1, <2>2, AddingDevice, DevicesAssumption DEF Held
    <2>4. PICK k : k = [keys[Own] EXCEPT !.devices = f]
      OBVIOUS
    <2>5. k \in ServerKeys
      BY <1>2, <2>1, <2>3, <2>4, KeysWithDevices
    <2>6. keys' = [keys EXCEPT ![Own] = k] /\ Keys!Tells(Own) /\ at = "upload" /\ at' = "up"
          /\ UNCHANGED <<sharing, since, list, hasOutdated, needsSave, file, answer>>
      BY <1>3, <1>1, <2>2, <2>4 DEF Keys!Upload, Keys!listVars
    <2> QED
      BY <2>1, <2>5, <2>6, ChangeHappens, HappensStep
  <1>4. ASSUME NEW u \in Keys!Users, NEW k, Keys!Change(u, k), k \in ServerKeys PROVE KeysInv'
    <2>1. keys' = [keys EXCEPT ![u] = k] /\ Keys!Tells(u) /\ at' = at
          /\ UNCHANGED <<sharing, since, list, hasOutdated, needsSave, file, answer>>
      BY <1>4 DEF Keys!Change, Keys!listVars
    <2> QED
      BY <1>4, <2>1, ChangeHappens, HappensStep
  <1>5. ASSUME NEW u \in Bots, Keys!Leave(u) PROVE KeysInv'
    <2>1. /\ sharing' = sharing \ {u} /\ changed' = changed \ {u} /\ at' = at
          /\ UNCHANGED <<keys, since, list, hasOutdated, needsSave, file, answer, missed>>
      BY <1>5 DEF Keys!Leave, Keys!listVars
    <2>2. Happens
      BY <1>1, <2>1 DEF Happens, Excused
    <2> QED
      BY <2>2, HappensStep
  <1>6. ASSUME NEW u \in Bots, Keys!Join(u) PROVE KeysInv'
    <2>1. /\ sharing' = sharing \union {u} /\ Keys!Tells(u) /\ at' = at
          /\ UNCHANGED <<keys, since, list, hasOutdated, needsSave, file, answer>>
      BY <1>6 DEF Keys!Join, Keys!listVars
    <2>2. u \in Excused' /\ Excused \subseteq Excused' /\ (~since => changed' = {})
      BY <1>1, <2>1 DEF Keys!Tells, Excused
    <2>3. Happens
      BY <1>1, <2>1, <2>2 DEF Happens
    <2> QED
      BY <2>3, HappensStep
  <1>7. ASSUME NEW u \in Keys!Users, Keys!CrossSign(u) PROVE KeysInv'
    <2>1. [keys[u] EXCEPT !.cross = TRUE] \in ServerKeys
      BY <1>2 DEF ServerKeys
    <2> QED
      BY <1>4, <1>7, <2>1 DEF Keys!CrossSign
  <1>8. ASSUME NEW u \in Keys!Users, NEW d \in DeviceNames, Keys!NewDevice(u, d) PROVE KeysInv'
    <2>1. PICK f : f = Keys!Adding(keys[u].devices, d, "keys")
      OBVIOUS
    <2>2. f \in DeviceLists(Held)
      BY <1>2, <2>1, AddingDevice DEF Held
    <2>3. PICK k : k = [keys[u] EXCEPT !.devices = f]
      OBVIOUS
    <2>4. k \in ServerKeys
      BY <1>2, <2>2, <2>3, KeysWithDevices
    <2>5. Keys!Change(u, k)
      BY <1>8, <2>1, <2>3 DEF Keys!NewDevice
    <2> QED
      BY <1>4, <2>4, <2>5
  <1>9. ASSUME NEW u \in Keys!Users, NEW d \in DeviceNames, Keys!LogOut(u, d) PROVE KeysInv'
    <2>1. PICK f : f = [e \in DOMAIN keys[u].devices \ {d} |-> keys[u].devices[e]]
      OBVIOUS
    <2>2. f \in DeviceLists(Held)
      <3>1. DOMAIN keys[u].devices \subseteq DeviceNames
            /\ keys[u].devices \in [DOMAIN keys[u].devices -> Held]
        BY <1>2, DeviceListsDef
      <3>2. DOMAIN f \subseteq DeviceNames /\ f \in [DOMAIN f -> Held]
        BY <2>1, <3>1
      <3> QED
        BY <3>2, DeviceListsDef
    <2>3. PICK k : k = [keys[u] EXCEPT !.devices = f]
      OBVIOUS
    <2>4. k \in ServerKeys
      BY <1>2, <2>2, <2>3, KeysWithDevices
    <2>5. Keys!Change(u, k)
      BY <1>9, <2>1, <2>3 DEF Keys!LogOut
    <2> QED
      BY <1>4, <2>4, <2>5
  <1>10. ASSUME NEW u \in Keys!Users, NEW d \in DeviceNames, Keys!SignDevice(u, d) PROVE KeysInv'
    <2>1. PICK f : f = [keys[u].devices EXCEPT ![d] = "signed"]
      OBVIOUS
    <2>2. f \in DeviceLists(Held)
      <3>1. DOMAIN keys[u].devices \subseteq DeviceNames
            /\ keys[u].devices \in [DOMAIN keys[u].devices -> Held]
        BY <1>2, DeviceListsDef
      <3>2. DOMAIN f \subseteq DeviceNames /\ f \in [DOMAIN f -> Held]
        BY <2>1, <3>1 DEF Held
      <3> QED
        BY <3>2, DeviceListsDef
    <2>3. PICK k : k = [keys[u] EXCEPT !.devices = f]
      OBVIOUS
    <2>4. k \in ServerKeys
      BY <1>2, <2>2, <2>3, KeysWithDevices
    <2>5. Keys!Change(u, k)
      <3>1. k = [keys[u] EXCEPT !.devices[d] = "signed"]
        BY <1>2, <2>1, <2>3 DEF ServerKeys
      <3> QED
        BY <1>10, <3>1 DEF Keys!SignDevice
    <2> QED
      BY <1>4, <2>4, <2>5
  <1> QED
    BY <1>3, <1>5, <1>6, <1>7, <1>8, <1>9, <1>10
-----------------------------------------------------------------------------
LEMMA InitKeysInv == Init => KeysInv
  <1> SUFFICES ASSUME Init PROVE KeysInv
    OBVIOUS
  <1>1. Keys!Init
    BY DEF Init
  <1>2. DOMAIN list = {} /\ DOMAIN file.users = {}
    BY <1>1 DEF Keys!Init, Keys!NoUsers
  <1>3. KeyTypes
    <2>1. Keys!NoDevices \in DeviceLists(Held)
      <3>1. DOMAIN Keys!NoDevices = {} /\ Keys!NoDevices \in [{} -> Held]
        BY DEF Keys!NoDevices
      <3> QED
        BY <3>1, DeviceListsDef
    <2> QED
      BY <1>1, <2>1 DEF Keys!Init, KeyTypes, ServerKeys
  <1>4. AnswersInv /\ hasOutdated = FALSE /\ at = "down"
    BY <1>1 DEF Keys!Init, AnswersInv
  <1> QED
    BY <1>2, <1>3, <1>4 DEF KeysInv, ListShape, FileShape, ListIsCurrent, FileIsCurrent

LEMMA StepKeysInv == KeysInv /\ [Next]_vars => KeysInv'
  <1> SUFFICES ASSUME KeysInv, [Next]_vars PROVE KeysInv'
    OBVIOUS
  <1>1. CASE UNCHANGED keyVars
    BY <1>1 DEF keyVars, KeysInv, KeyTypes, ListShape, FileShape, AnswersInv, ListIsCurrent,
       FileIsCurrent, FileIsListed, Keys!Matches, Keys!Outlived, Excused
  <1>2. CASE Keys!Next
    <2>1. \/ Keys!Start \/ Keys!EndOfAnswer \/ Keys!Close \/ Keys!Write \/ Keys!Die
          \/ Keys!Answer \/ Keys!StartTorn
          \/ (\E d \in DeviceNames : Keys!DeviceGet(d)) \/ (\E u \in Bots : Keys!DeviceGetAll(u))
          \/ \/ Keys!Upload
             \/ \E u \in Bots : Keys!Leave(u) \/ Keys!Join(u)
             \/ \E u \in Keys!Users : Keys!CrossSign(u)
             \/ \E u \in Keys!Users, d \in DeviceNames :
                   Keys!NewDevice(u, d) \/ Keys!LogOut(u, d) \/ Keys!SignDevice(u, d)
      BY <1>2 DEF Keys!Next
    <2> QED
      BY <2>1, StartStep, EndOfAnswerStep, CloseStep, WriteStep, DieStep, AnswerStep,
         DeviceGetStep, ServerStep
  <1> QED
    BY <1>1, <1>2 DEF Next, vars

(* What holds of the list in every behaviour.                              *)
THEOREM KeyListInvariant == FairSpec => []KeysInv
  BY InitKeysInv, StepKeysInv, PTL DEF FairSpec

(* What is found in the list of devices is what the server has of every    *)
(* device it still has, and of no other where all devices of a user are    *)
(* asked for; and nobody is asked for without a device to ask for: for any *)
(* users and devices, changes and restarts.                                *)
THEOREM KeyListIsCurrent == FairSpec => []ListsAreCurrent
  <1>1. KeysInv => ListsAreCurrent
    BY DEF KeysInv, AnswersInv, ListIsCurrent, Excused, ListsAreCurrent, Keys!ListsAreCurrent
  <1> QED
    BY <1>1, KeyListInvariant, PTL
=============================================================================
