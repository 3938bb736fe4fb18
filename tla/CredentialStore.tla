---------------------------- MODULE CredentialStore -----------------------------
(***************************************************************************)
(* The Azure credentials in flash: app_config_save_azure and               *)
(* app_config_load_azure.  A save writes three NVS keys one by one, then   *)
(* two JSON files, each to the flash and to the SD card if there is one;   *)
(* the HTTP task (ConnectionPull) and the azure_credentials method in the  *)
(* MQTT client task may save at the same time, and no lock covers a whole  *)
(* save.  cloud_init loads at boot, from the card first, and copies what   *)
(* it found to NVS.  The clear_sd method empties the card, file by file.   *)
(***************************************************************************)
EXTENDS Naturals, FiniteSets

CONSTANTS Creds,     \* whole credentials: host name, device id and key that belong together
          BootCred,  \* the credentials the device was provisioned with
          None,      \* an NVS key or a file that does not exist
          Torn,      \* a file that was not written to its end
          Savers,    \* the tasks that save: a subset of {"http", "mqtt"}
          MaxSaves,  \* bound on the saves and on clear_sd
          MaxFaults, \* bound on what goes wrong: a write, or a reset during a save
          MaxReboots

ASSUME ConstantsAssumption ==
    /\ BootCred \in Creds
    /\ None \notin Creds /\ Torn \notin Creds /\ None # Torn
    /\ Savers \subseteq {"http", "mqtt"}
    /\ MaxSaves \in Nat /\ MaxFaults \in Nat /\ MaxReboots \in Nat

Fields == {"host", "dev", "sak"}

VARIABLES board,   \* "fresh": provisioned in NVS only, it has no file yet; "legacy": with
                   \* /config.json; "flash": with files in flash; "sd": with files in
                   \* flash and on a card
          nvs,     \* nvs[f]: whose field f the keys az_host, az_dev, az_sak hold
          file,    \* file[k][m]: the file k on medium m; nobody writes "legacy"
          pc,      \* pc[s]: where saver s is in app_config_save_azure, or in clear_sd
          name,    \* name[s]: the file it is at
          cred,    \* cred[s]: what it saves
          result,  \* result[s]: what became of the first file in flash
          boot,    \* where cloud_init is in app_config_load_azure: the next place to look
          loaded,  \* [Fields -> whose]: what it loaded
          allowed, \* the credentials a boot may come up with (see Begin and End)
          period,  \* the saves begun since no save was under way
          success, \* one of these returned ESP_OK
          early,   \* a save began before this boot had loaded
          stale,   \* a save or clear_sd left a file on the card as it was, or they overlapped
          saves, faults, reboots

flash == <<nvs, file>>
saving == <<pc, name, cred, result>>
booting == <<boot, loaded>>
judging == <<allowed, period, success, early>>
card == <<board, stale>>
vars == <<flash, saving, booting, judging, card, saves, faults, reboots>>

Files == {"mqtt", "azure", "legacy"}
Media == {"flash", "sd"}

Clearing == {"clear1", "clear2"}
Steps == {"idle", "host", "dev", "sak", "open", "write", "openSd", "writeSd"} \union Clearing

\* Where a boot looks, in this order; without a card it begins in flash.
Places == [sd1 |-> <<"mqtt", "sd">>, sd2 |-> <<"azure", "sd">>, sd3 |-> <<"legacy", "sd">>,
           flash1 |-> <<"mqtt", "flash">>, flash2 |-> <<"azure", "flash">>,
           flash3 |-> <<"legacy", "flash">>]
NextPlace == [sd1 |-> "sd2", sd2 |-> "sd3", sd3 |-> "scan",
              flash1 |-> "flash2", flash2 |-> "flash3", flash3 |-> "nvsHost"]
FirstPlace == IF board = "sd" THEN "sd1" ELSE "flash1"

BootSteps == DOMAIN Places \union
             {"scan", "nvsHost", "nvsDev", "nvsSak", "host", "dev", "sak", "done"}

\* storage_write holds s_lock.
Writing(s) == pc[s] \in {"write", "openSd", "writeSd"}

Blank == [f \in Fields |-> None]
Whole(c) == [f \in Fields |-> c]

TypeOK ==
    /\ board \in {"fresh", "legacy", "flash", "sd"}
    /\ nvs \in [Fields -> Creds \union {None}]
    /\ file \in [Files -> [Media -> Creds \union {None, Torn}]]
    /\ pc \in [Savers -> Steps]
    /\ \A s \in Savers : pc[s] \in Clearing => s = "mqtt" /\ boot = "done"
    /\ name \in [Savers -> Files]
    /\ \A s, t \in Savers : s # t => ~(Writing(s) /\ Writing(t))
    /\ cred \in [Savers -> Creds]
    /\ boot \in BootSteps
    /\ loaded \in [Fields -> Creds \union {None}]
    /\ allowed \subseteq Creds /\ period \subseteq Creds
    /\ result \in [Savers -> {"OK", "FAIL"}]
    /\ {success, early, stale} \subseteq BOOLEAN
    /\ saves \in 0 .. MaxSaves /\ faults \in 0 .. MaxFaults /\ reboots \in 0 .. MaxReboots

Init ==
    /\ board \in {"fresh", "legacy", "flash", "sd"}
    /\ nvs = Whole(BootCred)
    /\ file = [k \in Files |-> [m \in Media |->
                 IF \/ board = "legacy" /\ m = "flash" /\ k = "legacy"
                    \/ board = "flash" /\ m = "flash" /\ k # "legacy"
                    \/ board = "sd" THEN BootCred ELSE None]]
    /\ pc = [s \in Savers |-> "idle"] /\ name = [s \in Savers |-> "mqtt"]
    /\ cred = [s \in Savers |-> BootCred] /\ result = [s \in Savers |-> "OK"]
    /\ boot = FirstPlace /\ loaded = Blank
    /\ allowed = {BootCred} /\ period = {} /\ success = FALSE /\ early = FALSE /\ stale = FALSE
    /\ saves = 0 /\ faults = 0 /\ reboots = 0

Fault == faults < MaxFaults /\ faults' = faults + 1
Goto(s, l) == pc' = [pc EXCEPT ![s] = l]
Saving == {s \in Savers : pc[s] \notin {"idle"} \union Clearing}
StorageFree == \A s \in Savers : ~Writing(s)
-------------------------------------------------------------------------------
(* app_config_save_azure.                                                  *)

\* A method can be called once there is a session, that is after the boot.
Begin(s, c) ==
    /\ pc[s] = "idle"
    /\ saves < MaxSaves
    /\ s = "mqtt" => boot = "done"
    /\ saves' = saves + 1
    /\ Goto(s, "host")
    /\ cred' = [cred EXCEPT ![s] = c]
    /\ allowed' = allowed \union {c}
    /\ period' = period \union {c}
    /\ early' = (early \/ boot # "done")
    /\ UNCHANGED <<name, result, flash, booting, success, card, faults, reboots>>

NextField(l) == CASE l = "host" -> "dev" [] l = "dev" -> "sak" [] l = "sak" -> "open"

\* One NVS key; an error is only logged.
SaveKey(s) ==
    /\ pc[s] \in Fields
    /\ Goto(s, NextField(pc[s]))
    /\ \/ nvs' = [nvs EXCEPT ![pc[s]] = cred[s]] /\ UNCHANGED faults
       \/ Fault /\ UNCHANGED nvs
    /\ UNCHANGED <<file, name, cred, result, booting, judging, card, saves, reboots>>

\* A save returns.  When no other one is under way, what came before is history,
\* provided a save succeeded since.
End(s, err) ==
    /\ pc' = [pc EXCEPT ![s] = "idle"]
    /\ name' = [name EXCEPT ![s] = "mqtt"] /\ result' = [result EXCEPT ![s] = "OK"]
    /\ IF Saving = {s}
         THEN /\ allowed' = IF success \/ err = "OK" THEN period ELSE allowed
              /\ period' = {} /\ success' = FALSE
         ELSE /\ success' = (success \/ err = "OK")
              /\ UNCHANGED <<allowed, period>>
    /\ UNCHANGED early

\* A file is done with: the second follows if the first went well, and decides
\* nothing.
FileDone(s, err) ==
    IF name[s] = "mqtt" /\ err = "OK"
      THEN /\ name' = [name EXCEPT ![s] = "azure"]
           /\ Goto(s, "open")
           /\ UNCHANGED <<result, judging>>
      ELSE End(s, IF name[s] = "azure" THEN "OK" ELSE err)

\* The card is written whatever became of the flash.
FlashDone(s, err) ==
    IF board = "sd"
      THEN Goto(s, "openSd") /\ result' = [result EXCEPT ![s] = err] /\ UNCHANGED <<name, judging>>
      ELSE FileDone(s, err)

Put(s, m, content) == file' = [file EXCEPT ![name[s]][m] = content]

\* Mutant: s_lock is not taken.
Open_NoLock(s) ==
    /\ pc[s] = "open"
    /\ \/ /\ Put(s, "flash", Torn) /\ Goto(s, "write")
          /\ UNCHANGED <<name, result, judging, stale, faults>>
       \/ Fault /\ FileDone(s, "FAIL") /\ stale' = TRUE /\ UNCHANGED file
       \/ Fault /\ FlashDone(s, "FAIL") /\ UNCHANGED <<stale, file>>
    /\ UNCHANGED <<nvs, cred, booting, board, saves, reboots>>

\* The file is emptied; or the flash is too full, and storage_manager_write_text
\* leaves the card alone too; or the file does not open.
Open(s) ==
    /\ pc[s] = "open"
    /\ StorageFree
    /\ \/ /\ Put(s, "flash", Torn) /\ Goto(s, "write")
          /\ UNCHANGED <<name, result, judging, stale, faults>>
       \/ Fault /\ FileDone(s, "FAIL") /\ stale' = TRUE /\ UNCHANGED file
       \/ Fault /\ FlashDone(s, "FAIL") /\ UNCHANGED <<stale, file>>
    /\ UNCHANGED <<nvs, cred, booting, board, saves, reboots>>

Write(s) ==
    /\ pc[s] = "write"
    /\ \/ Put(s, "flash", cred[s]) /\ FlashDone(s, "OK") /\ UNCHANGED faults
       \/ Fault /\ FlashDone(s, "FAIL") /\ UNCHANGED file
    /\ UNCHANGED <<nvs, cred, booting, card, saves, reboots>>

\* storage_write does not look at what becomes of the copy on the card.
OpenSd(s) ==
    /\ pc[s] = "openSd"
    /\ \/ /\ Put(s, "sd", Torn) /\ Goto(s, "writeSd")
          /\ UNCHANGED <<name, result, judging, stale, faults>>
       \/ Fault /\ FileDone(s, result[s]) /\ stale' = TRUE /\ UNCHANGED file
    /\ UNCHANGED <<nvs, cred, booting, board, saves, reboots>>

\* A file that was removed while it was open stays removed.
WriteSd(s) ==
    /\ pc[s] = "writeSd"
    /\ FileDone(s, result[s])
    /\ \/ /\ IF file[name[s]].sd = None THEN UNCHANGED file ELSE Put(s, "sd", cred[s])
          /\ UNCHANGED faults
       \/ Fault /\ UNCHANGED file
    /\ UNCHANGED <<nvs, cred, booting, card, saves, reboots>>
-------------------------------------------------------------------------------
(* The clear_sd method, without preserve_config: clear_sd_root.            *)

ClearBegin ==
    /\ "mqtt" \in Savers /\ pc["mqtt"] = "idle"
    /\ board = "sd" /\ boot = "done"
    /\ saves < MaxSaves
    /\ saves' = saves + 1
    /\ Goto("mqtt", "clear1")
    /\ UNCHANGED <<name, cred, result, flash, booting, judging, card, faults, reboots>>

\* The files go in directory order, without s_lock; one that cannot be removed stays.
\* As nobody writes it, /config.json can as well go last.
Clear ==
    /\ "mqtt" \in Savers /\ pc["mqtt"] \in Clearing
    /\ \E k \in {"mqtt", "azure"} :
         /\ pc["mqtt"] = "clear1" => Goto("mqtt", "clear2") /\ name' = [name EXCEPT !["mqtt"] = k]
         /\ pc["mqtt"] = "clear2" => /\ Goto("mqtt", "idle") /\ name["mqtt"] # k
                                    /\ name' = [name EXCEPT !["mqtt"] = "mqtt"]
         /\ LET gone == IF pc["mqtt"] = "clear1" THEN {k} ELSE {k, "legacy"} IN
              \/ /\ file' = [f \in Files |-> IF f \in gone THEN [file[f] EXCEPT !.sd = None]
                                                       ELSE file[f]]
                 /\ stale' = (stale \/ Saving # {})
                 /\ UNCHANGED faults
              \/ Fault /\ stale' = TRUE /\ UNCHANGED file
    /\ UNCHANGED <<nvs, cred, result, booting, judging, board, saves, reboots>>
-------------------------------------------------------------------------------
(* app_config_load_azure.                                                  *)

\* What a boot finds where it looks: a file of the card is read without s_lock.
Found(place) == file[Places[place][1]][Places[place][2]]
Readable(place) == Places[place][2] = "flash" => StorageFree

\* Mutant: the second file is read before the first.
LoadFile_SecondFirst ==
    /\ boot \in DOMAIN Places
    /\ Readable(boot)
    /\ LET other == [sd1 |-> "sd2", sd2 |-> "sd1", sd3 |-> "sd3",
                     flash1 |-> "flash2", flash2 |-> "flash1", flash3 |-> "flash3"]
           found == Found(other[boot])
       IN IF found \in Creds THEN loaded' = Whole(found) /\ boot' = "host"
                             ELSE loaded' = loaded /\ boot' = NextPlace[boot]
    /\ UNCHANGED <<flash, saving, judging, card, saves, faults, reboots>>

\* A whole file is what the boot comes up with; it is then copied to NVS.  Else the
\* next place is tried, and NVS at last.
LoadFile ==
    /\ boot \in DOMAIN Places
    /\ Readable(boot)
    /\ IF Found(boot) \in Creds THEN loaded' = Whole(Found(boot)) /\ boot' = "host"
                                ELSE loaded' = loaded /\ boot' = NextPlace[boot]
    /\ UNCHANGED <<flash, saving, judging, card, saves, faults, reboots>>

\* scan_mount_for_azure: the files of the card once more, in directory order.
Scan ==
    /\ boot = "scan"
    /\ LET whole == {file[k].sd : k \in Files} \intersect Creds IN
         IF whole = {} THEN loaded' = loaded /\ boot' = "flash1"
         ELSE \E c \in whole : loaded' = Whole(c) /\ boot' = "host"
    /\ UNCHANGED <<flash, saving, judging, card, saves, faults, reboots>>

\* nvs_manager_get_str, once for each key.
LoadKey ==
    /\ \/ boot = "nvsHost" /\ loaded' = [loaded EXCEPT !["host"] = nvs["host"]] /\ boot' = "nvsDev"
       \/ boot = "nvsDev" /\ loaded' = [loaded EXCEPT !["dev"] = nvs["dev"]] /\ boot' = "nvsSak"
       \/ boot = "nvsSak" /\ loaded' = [loaded EXCEPT !["sak"] = nvs["sak"]] /\ boot' = "done"
    /\ UNCHANGED <<flash, saving, judging, card, saves, faults, reboots>>

\* save_azure_to_nvs: it ends at the first error.
CopyKey ==
    /\ boot \in Fields
    /\ \/ /\ nvs' = [nvs EXCEPT ![boot] = loaded[boot]]
          /\ boot' = IF boot = "sak" THEN "done" ELSE NextField(boot)
          /\ UNCHANGED faults
       \/ Fault /\ boot' = "done" /\ UNCHANGED nvs
    /\ UNCHANGED <<file, saving, loaded, judging, card, saves, reboots>>
-------------------------------------------------------------------------------
\* A reset, during a save or not.  The file being written stays torn; a save that
\* was under way may have taken effect or not.
Reboot ==
    /\ reboots < MaxReboots
    /\ reboots' = reboots + 1
    /\ IF (\A s \in Savers : pc[s] = "idle") /\ boot = "done" THEN UNCHANGED faults ELSE Fault
    /\ pc' = [s \in Savers |-> "idle"] /\ name' = [s \in Savers |-> "mqtt"]
    /\ cred' = [s \in Savers |-> BootCred] /\ result' = [s \in Savers |-> "OK"]
    /\ boot' = FirstPlace /\ loaded' = Blank
    /\ period' = {} /\ success' = FALSE /\ early' = FALSE
    /\ stale' = (stale \/ \E s \in Savers : pc[s] \in Clearing)
    /\ UNCHANGED <<flash, allowed, board, saves>>

Next ==
    \/ \E s \in Savers, c \in Creds : Begin(s, c)
    \/ \E s \in Savers : SaveKey(s) \/ Open(s) \/ Write(s) \/ OpenSd(s) \/ WriteSd(s)
    \/ ClearBegin \/ Clear
    \/ LoadFile \/ Scan \/ LoadKey \/ CopyKey \/ Reboot

Spec == Init /\ [][Next]_vars
-------------------------------------------------------------------------------
(* Properties.                                                             *)

\* What may go wrong before a boot may come up with what nobody saved: nothing, for a
\* device with NVS alone, and no save comes before it has read the three keys; one
\* write that fails or one reset during a save, for one with both files in flash; but
\* where there is the older /config.json, no save comes while the boot reads, which may
\* look there after it has found the two others missing or torn; and with a card it was
\* not that a file on it was left as it was (the older content is then read first), nor
\* did clear_sd remove files in the middle of a save.
Forgiven ==
    CASE board = "fresh" -> faults = 0 /\ ~early
      [] board = "legacy" -> faults <= 1 /\ ~early
      [] board = "flash" -> faults <= 1
      [] board = "sd" -> faults <= 1 /\ ~early /\ (stale => faults = 0)

\* A boot comes up with one whole set of credentials, and with one it may have: after
\* a save that returned ESP_OK nothing older, whatever saves overlap.
LoadsWhatWasSaved ==
    [][loaded' # loaded /\ (\A f \in Fields : loaded'[f] # None) /\ Forgiven
         => \E c \in allowed : loaded' = Whole(c)]_vars
===============================================================================
