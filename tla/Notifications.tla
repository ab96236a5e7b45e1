---------------------------- MODULE Notifications ----------------------------
(***************************************************************************)
(* NotificationService, its preferences and NotificationEventService: how  *)
(* a call that has something to announce creates a notification, and what  *)
(* the recipients do with their preferences and notifications.  A call is  *)
(* a request in flight; every database call of it is one step and may      *)
(* throw, which ends the request with the steps before it in place.        *)
(***************************************************************************)
EXTENDS Naturals, Sequences, FiniteSets

CONSTANTS
    Users,
    Calls,              \* bound: the requests of a behaviour
    PreferenceInputs,   \* the preferences a PATCH may carry, as functions
    None

VARIABLES
    active,             \* users.is_active
    preferences,        \* notification_preferences, None where no row exists
    notifications,      \* the notifications table, oldest first
    call                \* the requests: program counter and locals

notificationVars == <<active, preferences, notifications, call>>

-----------------------------------------------------------------------------
NotificationType ==
    {"TRIP_STARTED", "TRIP_COMPLETED", "MAINTENANCE_STARTED",
     "MAINTENANCE_COMPLETED", "INSPECTION_FAILED", "FUEL_RECORD_CREATED", "SYSTEM"}

PreferenceFields == {"trip", "maintenance", "inspection", "fuel", "system"}

(* NOTIFICATION_TYPE_TO_PREFERENCE_FIELD. *)
PreferenceField(type) ==
    CASE type \in {"TRIP_STARTED", "TRIP_COMPLETED"}               -> "trip"
      [] type \in {"MAINTENANCE_STARTED", "MAINTENANCE_COMPLETED"} -> "maintenance"
      [] type = "INSPECTION_FAILED"                                -> "inspection"
      [] type = "FUEL_RECORD_CREATED"                              -> "fuel"
      [] type = "SYSTEM"                                           -> "system"

PreferenceRow == [PreferenceFields -> BOOLEAN]
Defaults == [f \in PreferenceFields |-> TRUE]

ASSUME NoneIsNoRow == None \notin PreferenceRow \cup NotificationType

isNotificationTypeEnabled(row, type) == row[PreferenceField(type)]

(* "wanted" is history: the recipient had the type enabled at some moment  *)
(* between the arrival of the request and the insert.                      *)
NotificationRow == [userId : Users, type : NotificationType, read : BOOLEAN,
                    wanted : BOOLEAN, by : Calls]

(* The type a user would be sent now; a missing row stands for defaults.   *)
Wants(u, type) ==
    preferences[u] # None => isNotificationTypeEnabled(preferences[u], type)

Goto(c, pc) == call' = [call EXCEPT ![c].pc = pc]

-----------------------------------------------------------------------------
(* A call that creates a notification carries its type; "then" is the step *)
(* of the caller that follows.                                             *)

(* UserRepository.requireActiveInOrganization, the first call of every     *)
(* operation of the two services but markAsRead.                           *)
RequireRecipient(c) ==
    /\ call[c].pc = "recipient"
    /\ Goto(c, IF ~active[call[c].user] THEN "failed"
               ELSE IF call[c].kind = "markAllAsRead" THEN "markAllAsRead" ELSE "ensure")
    /\ UNCHANGED <<active, preferences, notifications>>

(* Plausible fault: every event of the system counts as a SYSTEM message.  *)
AfterPreferencesOfSystem(c, row) ==
    CASE call[c].kind = "update" -> "update"
      [] call[c].kind = "read"   -> "done"
      [] OTHER -> IF isNotificationTypeEnabled(row, "SYSTEM")
                  THEN "insertNotification" ELSE call[c].then

(* What a call does once it holds the preferences row.                     *)
AfterPreferences(c, row) ==
    CASE call[c].kind = "update" -> "update"
      [] call[c].kind = "read"   -> "done"
      [] OTHER -> IF isNotificationTypeEnabled(row, call[c].type)
                  THEN "insertNotification" ELSE call[c].then

(* ensurePreferences: the row is read first ...                            *)
FindPreferences(c) ==
    /\ call[c].pc = "ensure"
    /\ LET row == preferences[call[c].user] IN
       Goto(c, IF row = None THEN "createDefaults" ELSE AfterPreferences(c, row))
    /\ UNCHANGED <<active, preferences, notifications>>

(* Plausible fault: the conflict is taken for "notifications are off".     *)
CreateDefaultsOrSkip(c) ==
    /\ call[c].pc = "createDefaults"
    /\ LET u == call[c].user IN
       IF preferences[u] = None
       THEN /\ preferences' = [preferences EXCEPT ![u] = Defaults]
            /\ Goto(c, AfterPreferences(c, Defaults))
       ELSE /\ Goto(c, IF call[c].kind \in {"update", "read"} THEN "failed" ELSE call[c].then)
            /\ UNCHANGED preferences
    /\ UNCHANGED <<active, notifications>>

(* ... and created with its defaults when it was not there; userId is      *)
(* unique, so the loser of two creations throws.                           *)
CreateDefaults(c) ==
    /\ call[c].pc = "createDefaults"
    /\ LET u == call[c].user IN
       IF preferences[u] = None
       THEN /\ preferences' = [preferences EXCEPT ![u] = Defaults]
            /\ Goto(c, AfterPreferences(c, Defaults))
       ELSE /\ Goto(c, "failed")
            /\ UNCHANGED preferences
    /\ UNCHANGED <<active, notifications>>

(* NotificationRepository.create with the content of the event.            *)
InsertNotification(c) ==
    /\ call[c].pc = "insertNotification"
    /\ notifications' =
         Append(notifications, [userId |-> call[c].user, type |-> call[c].type,
                                read |-> FALSE, wanted |-> call[c].on, by |-> c])
    /\ Goto(c, call[c].then)
    /\ UNCHANGED <<active, preferences>>

(* What the calls in flight see of a change of preferences (history).      *)
Witnessed(new) ==
    [c \in Calls |->
       IF call[c].type = None THEN call[c]
       ELSE LET wants == new[call[c].user] # None =>
                           isNotificationTypeEnabled(new[call[c].user], call[c].type)
            IN  [call[c] EXCEPT !.on = @ \/ wants, !.off = @ \/ ~wants]]

(* updatePreferences: one UPDATE of the fields the body carries; a body    *)
(* with none is refused (after the row has been ensured).                  *)
UpdatePreferences(c, input) ==
    /\ call[c].pc = "update"
    /\ IF DOMAIN input = {}
       THEN /\ Goto(c, "failed")
            /\ UNCHANGED preferences
       ELSE LET u == call[c].user
                row == [f \in PreferenceFields |->
                          IF f \in DOMAIN input THEN input[f] ELSE preferences[u][f]]
                new == [preferences EXCEPT ![u] = row]
            IN  /\ preferences' = new
                /\ call' = [Witnessed(new) EXCEPT ![c].pc = "done"]
    /\ UNCHANGED <<active, notifications>>

(* markAsRead: the row is read and checked to be the caller's; a read one  *)
(* is returned as it is, and the UPDATE goes by id alone.                  *)
FindNotification(c, n) ==
    /\ call[c].pc = "findNotification"
    /\ IF n \in DOMAIN notifications /\ notifications[n].userId = call[c].user
       THEN call' = [call EXCEPT ![c].id = n,
                       ![c].pc = IF notifications[n].read THEN "done" ELSE "markAsRead"]
       ELSE Goto(c, "failed")
    /\ UNCHANGED <<active, preferences, notifications>>

MarkAsRead(c) ==
    /\ call[c].pc = "markAsRead"
    /\ notifications' = [notifications EXCEPT ![call[c].id].read = TRUE]
    /\ Goto(c, "done")
    /\ UNCHANGED <<active, preferences>>

(* markAllAsRead: one updateMany over the user's unread rows, whatever the *)
(* user has become since the check.                                        *)
MarkAllAsRead(c) ==
    /\ call[c].pc = "markAllAsRead"
    /\ notifications' =
         [n \in DOMAIN notifications |->
            IF notifications[n].userId = call[c].user
            THEN [notifications[n] EXCEPT !.read = TRUE] ELSE notifications[n]]
    /\ Goto(c, "done")
    /\ UNCHANGED <<active, preferences>>

NotificationStep(c) ==
    \/ RequireRecipient(c)
    \/ FindPreferences(c)
    \/ CreateDefaults(c)
    \/ InsertNotification(c)
    \/ \E input \in PreferenceInputs : UpdatePreferences(c, input)
    \/ \E n \in 1..(Len(notifications) + 1) : FindNotification(c, n)
    \/ MarkAsRead(c)
    \/ MarkAllAsRead(c)

-----------------------------------------------------------------------------
(* A notification is created only for a user who had its type enabled at   *)
(* some moment since the request that announces it arrived: reading the    *)
(* preferences before the insert may miss a change that races with it, but *)
(* never one that came first (docs: a disabled type is not persisted).     *)
NoUnwantedNotification ==
    \A n \in DOMAIN notifications : notifications[n].wanted
=============================================================================
