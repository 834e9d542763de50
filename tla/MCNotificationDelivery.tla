----------------------- MODULE MCNotificationDelivery ------------------------
(* Instances of NotificationDelivery for TLC.                                *)
EXTENDS NotificationDelivery, TLC

CONSTANTS device, phone, push, sms, callback, r1, r2

TheConns == {push, sms, callback}
Calls == {r1, r2}
TheChannels == {device, phone}
TheWorkers == {push, sms}
TheQueues == device :> push @@ phone :> sms
OneEach == push :> push @@ sms :> sms

\* Bounds: a notification that goes to the phone goes to the device as well, is the only
\* one and has no key; a callback reports the device's copy, and no phone is sent to then.
\* The calls are alike: r1 is the one that is reported.
PhoneAlone ==
  \A r \in Requests :
    request[r].as[phone] # "none" =>
      r = r1 /\ request[r].as[device] # "none" /\ request[r].key = NoKey /\ Serving(r2, "idle")

DeviceReports ==
  On(callback) # NoDelivery => On(callback) = <<r1, device>> /\ request[r1].as[phone] = "none"

MCNext ==
  \/ \E r \in Requests : Dispatch(r) /\ PhoneAlone'
  \/ \E d \in Deliveries : Enqueue(d)
  \/ \E w \in Workers : Handle(w) \/ HandleThrows(w) \/ Stop(w)
  \/ \E c \in Callbacks : Callback(c) /\ DeviceReports'

MCSpec == Init /\ [][MCNext]_vars /\ Fairness
=============================================================================
