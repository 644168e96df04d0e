-------------------------- MODULE ShellApplication --------------------------
(***************************************************************************)
(* The dex shell of ShellApplication.kt, IODexTest: an application is      *)
(* shipped with a plain classes.dex, which is the shell, and the           *)
(* application's own dex files encrypted.  On its first start the shell    *)
(* unzips the APK into a private directory (Zip.kt), decrypts the dex      *)
(* files in place (AESUtils.kt) and adds what is in the directory to the   *)
(* class path (V19.java).  On later starts the directory exists, and only  *)
(* the last part is done.                                                  *)
(*                                                                         *)
(* The directory outlives the process, which can be killed at any point,   *)
(* and an update of the application, which replaces the APK only.          *)
(***************************************************************************)
EXTENDS Naturals

CONSTANTS
    Dexes,          \* the encrypted dex files in the APK
    Others,         \* its other entries, without the signature files
    Versions        \* how many versions of the APK get installed

ClassesDex == "classes.dex"
Entries == {ClassesDex} \cup Dexes \cup Others

ASSUME ShellAssumption ==
    /\ Dexes \cap Others = {}
    /\ ClassesDex \notin Dexes \cup Others
    /\ "none" \notin Entries
    /\ Versions \in Nat \ {0}

VARIABLES
    apk,            \* the installed version
    app,            \* the version whose directory app was made, 0 if it does not exist
    file,           \* what is in each file of that directory
    pc,             \* where the process is, "off" if there is none
    todo,           \* entries to unzip, or files to decrypt
    current,        \* the file that is open, "none"
    loaded,         \* dex files on the class path of the process
    disturbed       \* was some unzipping or decryption cut short

vars == <<apk, app, file, pc, todo, current, loaded, disturbed>>

Init ==
    /\ apk = 1
    /\ app = 0
    /\ file = [e \in Entries |-> "absent"]
    /\ pc = "off"
    /\ todo = {}
    /\ current = "none"
    /\ loaded = {}
    /\ disturbed = FALSE

(* What an APK has under a name, and what decrypt makes of a content: the  *)
(* padding of anything but a whole cipher text is wrong.                   *)
Packed(e) == IF e \in Dexes THEN "cipher" ELSE "plain"
Decrypt(content) == IF content = "cipher" THEN "plain" ELSE "null"

-----------------------------------------------------------------------------
Start ==
    /\ pc = "off"
    /\ pc' = "start"
    /\ UNCHANGED <<apk, app, file, todo, current, loaded, disturbed>>

(* Mutant: only unzipping depends on the directory.                        *)
ExistsDecrypts ==
    /\ pc = "start"
    /\ app # 0
    /\ pc' = "decrypt"
    /\ todo' = Dexes
    /\ UNCHANGED <<apk, app, file, current, loaded, disturbed>>

(* app.exists(): straight on to the class path.                            *)
Exists ==
    /\ pc = "start"
    /\ app # 0
    /\ pc' = "load"
    /\ UNCHANGED <<apk, app, file, todo, current, loaded, disturbed>>

(* unZip: the first entry makes the directory.                             *)
MakeDirectory ==
    /\ pc = "start"
    /\ app = 0
    /\ app' = apk
    /\ pc' = "unzip"
    /\ todo' = Entries
    /\ UNCHANGED <<apk, file, current, loaded, disturbed>>

(* Every entry is opened, which makes the file, and then copied.           *)
UnzipOpens(e) ==
    /\ pc = "unzip"
    /\ current = "none"
    /\ e \in todo
    /\ file' = [file EXCEPT ![e] = "torn"]
    /\ current' = e
    /\ todo' = todo \ {e}
    /\ UNCHANGED <<apk, app, pc, loaded, disturbed>>

UnzipCopies ==
    /\ pc = "unzip"
    /\ current # "none"
    /\ file' = [file EXCEPT ![current] = Packed(current)]
    /\ current' = "none"
    /\ UNCHANGED <<apk, app, pc, todo, loaded, disturbed>>

(* listFiles, and of the files the dex files but classes.dex.              *)
UnzipEnds ==
    /\ pc = "unzip"
    /\ current = "none"
    /\ todo = {}
    /\ pc' = "decrypt"
    /\ todo' = {e \in Dexes : file[e] # "absent"}
    /\ UNCHANGED <<apk, app, file, current, loaded, disturbed>>

(* getBytes, decrypt and new FileOutputStream, which empties the file.     *)
(* The plain text is in memory only; plain text of null throws on writing. *)
DecryptOpens(e) ==
    /\ pc = "decrypt"
    /\ current = "none"
    /\ e \in todo
    /\ todo' = todo \ {e}
    /\ file' = [file EXCEPT ![e] = "torn"]
    /\ current' = IF Decrypt(file[e]) = "plain" THEN e ELSE "none"
    /\ UNCHANGED <<apk, app, pc, loaded, disturbed>>

DecryptWrites ==
    /\ pc = "decrypt"
    /\ current # "none"
    /\ file' = [file EXCEPT ![current] = "plain"]
    /\ current' = "none"
    /\ UNCHANGED <<apk, app, pc, todo, loaded, disturbed>>

(* The storage is full: the exception is printed, the next file is taken.  *)
DecryptFails ==
    /\ pc = "decrypt"
    /\ current # "none"
    /\ current' = "none"
    /\ disturbed' = TRUE
    /\ UNCHANGED <<apk, app, file, pc, todo, loaded>>

DecryptEnds ==
    /\ pc = "decrypt"
    /\ current = "none"
    /\ todo = {}
    /\ pc' = "load"
    /\ UNCHANGED <<apk, app, file, todo, current, loaded, disturbed>>

(* V19.install appends to dexElements what the class loader can make of    *)
(* some files; those that are no dex files end as suppressed exceptions.   *)
(* If there are any, install then looks for a field of the class loader    *)
(* that is not there, and throws when the elements have been appended.     *)
Elements(files) == {e \in files : file[e] = "plain"}

(* All dex files of the directory are handed to V19.install.               *)
Install ==
    /\ pc = "load"
    /\ loaded' = Elements(Dexes \cup {ClassesDex})
    /\ pc' = "running"
    /\ UNCHANGED <<apk, app, file, todo, current, disturbed>>

(* V19.install does not find pathList, dexElements or makePathElements on  *)
(* this platform, or what it calls throws.  The exception is printed, and  *)
(* the application goes on with the class path it had.                     *)
InstallThrows ==
    /\ pc = "load"
    /\ pc' = "bare"
    /\ UNCHANGED <<apk, app, file, todo, current, loaded, disturbed>>

(* The process ends, in the middle of something or not.  An IOException of *)
(* unZip, which nobody catches, ends it as well.                           *)
Kill ==
    /\ pc # "off"
    /\ pc' = "off"
    /\ disturbed' = (disturbed \/ pc \in {"unzip", "decrypt"})
    /\ todo' = {}
    /\ current' = "none"
    /\ loaded' = {}
    /\ UNCHANGED <<apk, app, file>>

Update ==
    /\ pc = "off"
    /\ apk < Versions
    /\ apk' = apk + 1
    /\ UNCHANGED <<app, file, pc, todo, current, loaded, disturbed>>

Next ==
    \/ Start
    \/ Exists
    \/ MakeDirectory
    \/ \E e \in Entries : UnzipOpens(e) \/ DecryptOpens(e)
    \/ UnzipCopies
    \/ UnzipEnds
    \/ DecryptWrites
    \/ DecryptFails
    \/ DecryptEnds
    \/ Install
    \/ InstallThrows
    \/ Kill
    \/ Update

Spec == Init /\ [][Next]_vars

-----------------------------------------------------------------------------
Contents == {"absent", "torn", "cipher", "plain"}

TypeOK ==
    /\ apk \in 1..Versions
    /\ app \in 0..apk
    /\ file \in [Entries -> Contents]
    /\ pc \in {"off", "start", "unzip", "decrypt", "load", "running", "bare"}
    /\ todo \subseteq Entries
    /\ current \in Entries \cup {"none"}
    /\ loaded \subseteq Dexes \cup {ClassesDex}
    /\ disturbed \in BOOLEAN

Complete == \A e \in Entries : file[e] = "plain"

(* As long as no unzipping or decryption was cut short, every start puts   *)
(* the whole application on the class path, or nothing where V19.install   *)
(* throws: no start decrypts what an earlier one has decrypted, and none   *)
(* goes on with what is not decrypted.                                     *)
UndisturbedLoadsAll ==
    pc \in {"running", "bare"} /\ ~disturbed =>
        /\ Complete
        /\ loaded = IF pc = "running" THEN Dexes \cup {ClassesDex} ELSE {}

(* Why UndisturbedLoadsAll holds.  A directory that no process is working  *)
(* on is complete; while one is being made, what is neither open nor still *)
(* to be done is done.                                                     *)
RestsComplete ==
    /\ pc \in {"off", "start"} => app = 0 \/ Complete
    /\ pc \in {"load", "running", "bare"} => Complete
    /\ loaded = IF pc = "running" THEN Dexes \cup {ClassesDex} ELSE {}

UnzipInStep ==
    pc = "unzip" => \A e \in Entries \ (todo \cup {current}) : file[e] = Packed(e)

DecryptInStep ==
    pc = "decrypt" =>
        /\ todo \cup ({current} \ {"none"}) \subseteq Dexes
        /\ current \notin todo
        /\ \A e \in todo : file[e] = "cipher"
        /\ \A e \in Entries \ (todo \cup {current}) : file[e] = "plain"

InstallInv == ~disturbed => RestsComplete /\ UnzipInStep /\ DecryptInStep

(* What has been decrypted stays decrypted: once all files are plain, no   *)
(* later start, however it or an earlier one ended, and no update touches  *)
(* them.  Decrypting once more would destroy them.                         *)
DecryptedStaysDecrypted == [][Complete => Complete']_vars

(* "If the directory exists, the dex files have been decrypted already":   *)
(* what a start finds is decrypted.  The code does not see to it when an   *)
(* earlier start was cut short.                                            *)
ExistingIsDecrypted ==
    pc = "start" /\ app # 0 => \A e \in Dexes : file[e] = "plain"
=============================================================================
