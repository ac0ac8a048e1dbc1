----------------------------- MODULE ConfigFile -----------------------------
(***************************************************************************)
(* The values of the settings: what a start makes of config.json, what a   *)
(* phone's message may put in the config, and what is written back.  Every *)
(* value passes Validate on its way in, from the file or from a phone, and *)
(* encoding/json on its way out, which leaves the zero of an `omitempty`   *)
(* field out of the file; the next Load finds the default in its place.    *)
(* (internal/config/config.go; internal/ws/hub.go: applyServerSettings,    *)
(* applyLocationSettings, announceConfigChanges, handleResetConfig;        *)
(* main.go: loadConfig, ensureLanguageChoice, consoleLang.)                *)
(*                                                                         *)
(* Settings has the places these values are copied to and the order they   *)
(* are brought after one another; here a message is handled in one step.   *)
(* A key is the endpoint it was given for: the one in the file beside it,  *)
(* or the one its message names, refused or not.  The message of the       *)
(* settings screen is the whole config with one of the phone's changes.    *)
(***************************************************************************)
EXTENDS Integers, Sequences

CONSTANTS
  None,
  Edits,     \* what somebody may have typed into the file: <<field, value>>
  Changes,   \* what a phone may change: <<field, value>>
  MaxChanges \* how many messages come

VARIABLES
  file,      \* config.json: the values of the fields that are in it
  cfg,       \* Hub.cfg
  running,   \* the values this start handed to what runs, which nothing renews
  told,      \* which warnings the last message was answered with
  isSaved,   \* was the config written since it last changed
  changes    \* messages so far

vars == <<file, cfg, running, told, isSaved, changes>>

-----------------------------------------------------------------------------
Numbers == {"port", "max_sessions", "max_auth_attempts", "lockout_seconds",
            "heartbeat_seconds", "disconnect_grace_seconds", "input_threshold",
            "session_ttl_minutes", "session_idle_minutes", "poll_seconds",
            "update_check_hours", "delay_seconds", "volume_percent"}

Default == [port |-> 0, max_sessions |-> 3, max_auth_attempts |-> 5,
            lockout_seconds |-> 60, heartbeat_seconds |-> 15,
            disconnect_grace_seconds |-> 30, input_threshold |-> 1,
            session_ttl_minutes |-> 1440, session_idle_minutes |-> 480,
            poll_seconds |-> 60, update_check_hours |-> 0,
            delay_seconds |-> 15, volume_percent |-> 50,
            update_channel |-> "", language |-> "",
            geolocate_url |-> "", geolocate_key |-> None,
            pin |-> None]

Fields == DOMAIN Default

\* The least and the greatest a field may be, and what a value below becomes.
Limits == [port |-> <<0, 65535, 0>>, max_sessions |-> <<1, 100, 3>>,
           max_auth_attempts |-> <<1, 1000, 5>>, lockout_seconds |-> <<1, 3600, 60>>,
           heartbeat_seconds |-> <<1, 3600, 15>>,
           disconnect_grace_seconds |-> <<0, 3600, 30>>,
           input_threshold |-> <<1, 10000, 1>>,
           session_ttl_minutes |-> <<0, 43200, 0>>,
           session_idle_minutes |-> <<0, 43200, 0>>,
           poll_seconds |-> <<15, 86400, 60>>,
           update_check_hours |-> <<6, 168, 24>>,
           delay_seconds |-> <<0, 86400, 0>>, volume_percent |-> <<1, 100, 100>>]

\* The fields whose zero means that there is no value.
ZeroIsUnset == {"poll_seconds", "update_check_hours", "volume_percent"}

Channels == {"stable", "beta"}
Languages == {"en", "tr"}
Secure == {"https://a", "https://b"}
Hostless == "https://"
Urls == Secure \cup {Hostless, "http://a", "http://b", ""}

\* adjustments.clampInt
Clamp(f, v) ==
  LET l == Limits[f] IN
  IF v < l[1] THEN l[3] ELSE IF v > l[2] THEN l[2] ELSE v

\* The rules on what is not a number: an unknown language is asked for again, an
\* unknown channel is stable, and an endpoint that is not https is dropped.
Corrected(f, v) ==
  CASE f = "language" -> IF v \in Languages THEN v ELSE ""
    [] f = "update_channel" -> IF v \in Channels \cup {""} THEN v ELSE "stable"
    [] f = "geolocate_url" -> IF v \in Secure THEN v ELSE ""
    [] OTHER -> v

\* Config.Validate
Validate(c) ==
  [f \in Fields |-> IF f \notin Numbers THEN Corrected(f, c[f])
                    ELSE IF f \in ZeroIsUnset /\ c[f] = 0 THEN 0 ELSE Clamp(f, c[f])]

-----------------------------------------------------------------------------
Omitted == {"session_ttl_minutes", "session_idle_minutes", "poll_seconds",
            "update_check_hours", "volume_percent"}

\* Mutant: the grace period is left out of the file when it is zero.
WrittenMore(c) ==
  [f \in {g \in Fields : ~(g \in Omitted \cup {"disconnect_grace_seconds"} /\ c[g] = 0)} |-> c[f]]

\* What config.Save leaves in the file.
Written(c) == [f \in {g \in Fields : ~(g \in Omitted /\ c[g] = 0)} |-> c[f]]

\* What config.Load makes of it: the file is decoded over the defaults, and a level
\* that names no volume over the default's level at its place.
Read(contents) ==
  [f \in Fields |-> IF f \in DOMAIN contents THEN contents[f] ELSE Default[f]]

\* config.Save: a whole file, or the one that was there.
Save(c) ==
  \/ file' = Written(c) /\ isSaved' = TRUE
  \/ UNCHANGED file /\ isSaved' = FALSE

\* What is handed out at the start and not again: the listener, the hub's timings,
\* the auth manager's limits, the input sensor, the alarm's levels, the tracker.
StartOnly == {"port", "max_sessions", "max_auth_attempts", "lockout_seconds",
              "heartbeat_seconds", "input_threshold", "disconnect_grace_seconds",
              "session_ttl_minutes", "session_idle_minutes", "poll_seconds",
              "delay_seconds", "volume_percent"}
Handed(c) == [f \in StartOnly |-> c[f]]

\* migratePlaintextPin
Hashed(c) == IF c.pin = "plain" THEN [c EXCEPT !.pin = "hash"] ELSE c

\* loadConfig; an interactive start then asks for the language it does not have,
\* and an older version's cleartext PIN is hashed; each is saved at once.
Start ==
  LET loaded == Validate(Read(file)) IN
  \E lang \in {loaded.language} \cup (IF loaded.language = "" THEN Languages ELSE {}) :
    LET c == Hashed([loaded EXCEPT !.language = lang])
    IN /\ cfg' = c /\ running' = Handed(c) /\ told' = {}
       /\ IF c # loaded THEN Save(c)
          ELSE isSaved' = (Read(file) = c) /\ UNCHANGED file

-----------------------------------------------------------------------------
Unsettable == {"session_ttl_minutes", "session_idle_minutes", "update_check_hours",
               "language", "pin"}

\* applyServerSettings and applyLocationSettings copy what the message says, except a
\* channel nobody knows and an interval that is none.
Copied(f, v) ==
  IF \/ f \in Unsettable \cup {"geolocate_url", "geolocate_key"}
     \/ f = "update_channel" /\ v \notin Channels
     \/ f = "poll_seconds" /\ v <= 0
  THEN cfg[f] ELSE v

\* Mutant: the key stays where it is.
InheritUrl(url, key) ==
  [url |-> IF url \in Secure \cup {Hostless} THEN url ELSE cfg.geolocate_url,
   key |-> IF key # None THEN key ELSE cfg.geolocate_key]

\* applyGeolocateURL, and the key beside it.
ApplyUrl(url, key) ==
  LET new == url \in (Secure \cup {Hostless}) \ {cfg.geolocate_url} IN
  [url |-> IF new THEN url ELSE cfg.geolocate_url,
   key |-> IF key # None THEN key ELSE IF new THEN None ELSE cfg.geolocate_key]

\* applyConfigUpdate, on the values.
Applied(p) ==
  LET url == ApplyUrl(p.geolocate_url, p.geolocate_key) IN
  Validate([f \in Fields |-> IF f = "geolocate_url" THEN url.url
                             ELSE IF f = "geolocate_key" THEN url.key
                             ELSE Copied(f, p[f])])

\* announceConfigChanges
Announced(p) ==
     (IF p.port # cfg.port THEN {"port"} ELSE {})
  \cup (IF p.geolocate_url \notin Secure \cup {Hostless, "", cfg.geolocate_url}
        THEN {"endpoint refused"} ELSE {})
  \cup (IF p.poll_seconds # cfg.poll_seconds THEN {"location"} ELSE {})

\* What a phone's settings screen sends: the config it was shown with one change.
\* configToPayload never sends the key out, so a message brings the one the phone typed
\* beside the endpoint, or none.
Message(change, withKey) ==
  LET shown == [cfg EXCEPT ![change[1]] = change[2]] IN
  [shown EXCEPT !.geolocate_key = IF withKey THEN shown.geolocate_url ELSE None]

\* handleUpdateConfig
Update(change, withKey) ==
  LET p == Message(change, withKey) IN
  /\ changes < MaxChanges /\ changes' = changes + 1
  /\ cfg' = Applied(p) /\ told' = Announced(p)
  /\ Save(Applied(p))
  /\ UNCHANGED running

\* handleResetConfig
Reset ==
  /\ changes < MaxChanges /\ changes' = changes + 1
  /\ cfg' = Default /\ told' = (IF cfg.port # 0 THEN {"port"} ELSE {})
  /\ Save(Default) /\ UNCHANGED running

\* consoleLang
ChooseLanguage(lang) ==
  /\ cfg.language # lang
  /\ cfg' = [cfg EXCEPT !.language = lang] /\ told' = {}
  /\ Save(cfg') /\ UNCHANGED <<running, changes>>

-----------------------------------------------------------------------------
\* What the theorems about this module ask of its constants: a number stays a number,
\* a PIN is one or is none, an endpoint is one of Urls, and a key comes with the
\* message or was in the file.
ConstantsOK ==
  /\ MaxChanges \in Nat
  /\ \A e \in Edits \cup Changes :
       /\ e[1] \in Fields \ {"geolocate_key"}
       /\ e[1] \in Numbers => e[2] \in Int
       /\ e[1] = "pin" => e[2] \in {None, "plain", "hash"}
       /\ e[1] = "geolocate_url" => e[2] \in Urls

\* Somebody edited one value of the file, or the default's, and starts the program.
Init ==
  /\ \E edit \in Edits, at \in {"", "https://a"} :
       file = [[Default EXCEPT !.geolocate_url = at,
                               !.geolocate_key = IF at = "" THEN None ELSE at]
                 EXCEPT ![edit[1]] = edit[2]]
  /\ cfg = Validate(Read(file)) /\ running = Handed(cfg)
  /\ told = {} /\ isSaved = (cfg = Read(file)) /\ changes = 0

Restart == Start /\ UNCHANGED changes

Next ==
  \/ Restart \/ Reset
  \/ \E lang \in Languages : ChooseLanguage(lang)
  \/ \E change \in Changes, withKey \in BOOLEAN : Update(change, withKey)

Spec == Init /\ [][Next]_vars

-----------------------------------------------------------------------------
Acceptable(f, v) ==
  /\ f \in Numbers => (f \in ZeroIsUnset /\ v = 0) \/ v \in Limits[f][1] .. Limits[f][2]
  /\ f = "update_channel" => v \in Channels \cup {""}
  /\ f = "language" => v \in Languages \cup {""}
  /\ f = "geolocate_url" => v \in Secure \cup {""}
  /\ f = "geolocate_key" => v \in Urls \cup {None}
  /\ f = "pin" => v \in {None, "plain", "hash"}

\* Whatever was typed into the file and whatever a phone sent, the program runs
\* on values it can act on, and so does what a start hands out.  (Validate's "clamps
\* values that would break the program if honored literally".)
TypeOK ==
  /\ \A f \in Fields : Acceptable(f, cfg[f])
  /\ \A f \in StartOnly : Acceptable(f, running[f])
  /\ told \subseteq {"port", "endpoint refused", "location"}
  /\ isSaved \in BOOLEAN /\ changes \in 0 .. MaxChanges

\* The zeros that the file does not have and the defaults have something else for.
Forgotten(f, v) == f \in Omitted /\ v = 0 /\ Default[f] # 0

\* What the phones are shown is what the next start comes back with: once the
\* config was written, starting again changes no value of it but the language
\* it asks for, the PIN it hashes and the zeros that are not written.
\* (Save, Load and Validate, one after the other.)
RestartKeeps ==
  [][(cfg' # cfg /\ isSaved /\ Restart) =>
       \A f \in Fields \ {"language", "pin"} :
         cfg'[f] = cfg[f] \/ Forgotten(f, cfg[f])]_vars

\* A message that points the program at another endpoint leaves no key there but the
\* one it brings for it, whatever the key was and wherever it came from.
\* (applyGeolocateURL: "a new endpoint must not inherit the stored API key".)  An
\* endpoint Validate drops is the exception: its key stays, with the default's.
KeyIsNotInherited ==
  [][cfg'.geolocate_url \notin {cfg.geolocate_url, ""}
       => cfg'.geolocate_key \in {None, cfg'.geolocate_url} \/ Restart]_vars

\* Together: the file keeps what was chosen, and a new endpoint inherits no key.
ConfigIsKept == RestartKeeps /\ KeyIsNotInherited

\* A key stays with the endpoint it was given for.  Violated: the key of a message is
\* stored whatever became of the endpoint it names, so one that came with an endpoint
\* that is refused ends up beside the one that was there.  (applyGeolocateURL:
\* "Changing the endpoint means supplying the key that goes with it".)
KeyStaysWithItsEndpoint ==
  [][(cfg'.geolocate_key # None /\ cfg'.geolocate_url # "")
       => (cfg'.geolocate_key = cfg.geolocate_key /\ cfg'.geolocate_url = cfg.geolocate_url)
          \/ cfg'.geolocate_key = cfg'.geolocate_url
          \/ Restart]_vars

\* A setting that was changed and does not take effect before the next start is
\* said to need one.  Violated for all but the port and the location.
\* (applyServerSettings: "says whether any of them will only take effect on the
\* next start".)
PendingIsSaid ==
  [][\A f \in StartOnly :
       (changes' # changes /\ cfg'[f] # cfg[f] /\ cfg'[f] # running[f])
         => told' \cap {"port", "location"} # {}]_vars

\* A zero that means "no expiry" is still one after the config was saved and
\* read again.  Violated: the field is left out of the file, and the default is
\* a day.  (Config.SessionTTLMinutes: "Zero means no expiry".)
NoExpiryIsKept ==
  [][(Restart /\ isSaved /\ cfg.session_ttl_minutes = 0) => cfg'.session_ttl_minutes = 0]_vars
=============================================================================
