---------------------------- MODULE MediaLinks ----------------------------
(***************************************************************************)
(* The bytes of a recording on disk and the links that fetch them without  *)
(* a session: storage.ts's FilesystemStorage, the routes that write, read  *)
(* and sign, and index.mjs, which serves a link after checking nothing but *)
(* its signature.  A key is a directory of the child and a random name, so *)
(* no two uploads share one.  The process restarts, with or without a      *)
(* configured secret, and the reaper deletes files underneath.             *)
(***************************************************************************)
EXTENDS Integers, FiniteSets

CONSTANTS
  BlobKey,                  \* storage keys
  KidOf,                    \* the child each was uploaded for
  Fetch,                    \* requests at one time
  SIGNED_URL_TTL_SECONDS,
  MEDIA_SIGNING_SECRET,     \* whether it is set
  LastSecond, MaxRestarts   \* bounds; of restarts where each has a secret of its own

ASSUME LinksAssumption ==
  /\ SIGNED_URL_TTL_SECONDS \in Nat \ {0} /\ MEDIA_SIGNING_SECRET \in BOOLEAN
  /\ {LastSecond, MaxRestarts} \subseteq Nat

VARIABLES
  disk,       \* what is there under each key: "none", "part" or "whole"
  uploadOf,   \* how far each upload got
  rowOf,      \* the child whose media_artifact row names the key, or {}
  links,      \* every link ever minted, and when
  fetch,      \* requests under way
  secret,     \* the secret of the running process
  second,
  delivered   \* history: what was served, through which link, when

linkVars == <<disk, uploadOf, rowOf, links, fetch, secret, second, delivered>>

NoFetch == [pc |-> "idle"]

LinksInit ==
  /\ disk = [k \in BlobKey |-> "none"] /\ uploadOf = [k \in BlobKey |-> "none"]
  /\ rowOf = [k \in BlobKey |-> {}]
  /\ links = {} /\ delivered = {}
  /\ fetch = [r \in Fetch |-> NoFetch]
  /\ secret = 0 /\ second = 0

-----------------------------------------------------------------------------
(* Storage. *)

\* POST .../media: the key is made by the server.  writeFile() truncates and
\* then writes, and what a crash interrupts stays as it is.
put(k) ==
  /\ uploadOf[k] = "none"
  /\ uploadOf' = [uploadOf EXCEPT ![k] = "writing"] /\ disk' = [disk EXCEPT ![k] = "part"]
  /\ UNCHANGED <<rowOf, links, fetch, secret, second, delivered>>

\* Mutant: the key is answered before the file is written.
PutAnsweredEarly(k) == uploadOf[k] = "writing" /\ disk' = disk

PutWritten(k) == uploadOf[k] = "writing" /\ disk' = [disk EXCEPT ![k] = "whole"]

putEnds(k) ==
  /\ PutWritten(k)
  /\ uploadOf' = [uploadOf EXCEPT ![k] = "answered"]
  /\ UNCHANGED <<rowOf, links, fetch, secret, second, delivered>>

\* POST .../messages names a key the client was given (see MediaRetention).
Attach(k) ==
  /\ uploadOf[k] = "answered"
  /\ uploadOf' = [uploadOf EXCEPT ![k] = "attached"] /\ rowOf' = [rowOf EXCEPT ![k] = {KidOf[k]}]
  /\ UNCHANGED <<disk, links, fetch, secret, second, delivered>>

\* The reaper: the file, and the row after it.  ENOENT is a file already gone.
ReapBlob(k) ==
  /\ rowOf[k] # {} /\ disk[k] # "none"
  /\ disk' = [disk EXCEPT ![k] = "none"]
  /\ UNCHANGED <<uploadOf, rowOf, links, fetch, secret, second, delivered>>

ReapRowOf(k) ==
  /\ rowOf[k] # {} /\ disk[k] = "none"
  /\ rowOf' = [rowOf EXCEPT ![k] = {}]
  /\ UNCHANGED <<disk, uploadOf, links, fetch, secret, second, delivered>>

-----------------------------------------------------------------------------
(* Links. *)

\* Mutant: the signature is of the expiry alone.
signKeyUnbound(s, k, expiresAt) == [secret |-> s, key |-> KidOf[k], exp |-> expiresAt]

\* A hash of the three; nobody makes one without the secret.
signKey(s, k, expiresAt) == [secret |-> s, key |-> k, exp |-> expiresAt]

signedUrl(k) == [key |-> k, exp |-> second + SIGNED_URL_TTL_SECONDS,
                 sig |-> signKey(secret, k, second + SIGNED_URL_TTL_SECONDS)]

verifySignedUrl(url) == url.exp > second /\ url.sig = signKey(secret, url.key, url.exp)

FetchIs(r, f) == fetch' = [fetch EXCEPT ![r] = f]

\* GET .../media: mediaArtifactFor() asks for the key and the child at once.
mediaArtifactFor(r, k, kid) ==
  /\ fetch[r].pc = "idle" /\ kid \in rowOf[k]
  /\ FetchIs(r, [pc |-> "row", key |-> k])
  /\ UNCHANGED <<disk, uploadOf, rowOf, links, secret, second, delivered>>

\* The bytes, and the link for whoever plays them; a row that outlived its file is
\* an honest 404.
GetArtifact(r) ==
  /\ fetch[r].pc = "row" /\ FetchIs(r, NoFetch)
  /\ links' = IF disk[fetch[r].key] = "none" THEN links ELSE links \cup {signedUrl(fetch[r].key)}
  /\ UNCHANGED <<disk, uploadOf, rowOf, secret, second, delivered>>

\* The raw export signs every delivered artifact of a child without reading any.
ExportLinks(kid) ==
  /\ \E k \in BlobKey : kid \in rowOf[k]
  /\ links' = links \cup {signedUrl(k) : k \in {k \in BlobKey : kid \in rowOf[k]}}
  /\ UNCHANGED <<disk, uploadOf, rowOf, fetch, secret, second, delivered>>

\* A link as it was minted, or with another key or expiry in it.
UrlsAtHand ==
  {[key |-> k, exp |-> e, sig |-> l.sig] : k \in BlobKey, e \in {l2.exp : l2 \in links} \cup {LastSecond + 9},
                                          l \in links}

serveSignedMedia(r, url) ==
  /\ fetch[r].pc = "idle" /\ verifySignedUrl(url)
  /\ FetchIs(r, [pc |-> "verified", url |-> url, at |-> second])
  /\ UNCHANGED <<disk, uploadOf, rowOf, links, secret, second, delivered>>

\* 200 with the file as it is then, or 404.
MediaServed(r) ==
  LET f == fetch[r] IN
  /\ f.pc = "verified" /\ FetchIs(r, NoFetch)
  /\ delivered' = IF disk[f.url.key] = "none" THEN delivered
                  ELSE delivered \cup {[url |-> f.url, at |-> f.at, bytes |-> disk[f.url.key]]}
  /\ UNCHANGED <<disk, uploadOf, rowOf, links, secret, second>>

\* Mutant: every process has a secret of its own.
SecretOfProcessNew == secret + 1

SecretOfProcess == IF MEDIA_SIGNING_SECRET THEN secret ELSE secret + 1

\* The process goes and another comes: uploads and requests die with it.
Restart ==
  /\ secret < MaxRestarts
  /\ secret' = SecretOfProcess
  /\ uploadOf' = [k \in BlobKey |-> IF uploadOf[k] = "writing" THEN "lost" ELSE uploadOf[k]]
  /\ fetch' = [r \in Fetch |-> NoFetch]
  /\ UNCHANGED <<disk, rowOf, links, second, delivered>>

SecondPasses ==
  /\ second < LastSecond /\ second' = second + 1
  /\ UNCHANGED <<disk, uploadOf, rowOf, links, fetch, secret, delivered>>

\* index.mjs: what is asked of the process, by its path.
MediaRequest(r) ==
  \/ \E k \in BlobKey, kid \in {KidOf[j] : j \in BlobKey} : mediaArtifactFor(r, k, kid)
  \/ GetArtifact(r)
  \/ \E url \in UrlsAtHand : serveSignedMedia(r, url)
  \/ MediaServed(r)

LinksNext ==
  \/ \E k \in BlobKey : put(k) \/ putEnds(k) \/ Attach(k) \/ ReapBlob(k) \/ ReapRowOf(k)
  \/ \E kid \in {KidOf[j] : j \in BlobKey} : ExportLinks(kid)
  \/ \E r \in Fetch : MediaRequest(r)
  \/ Restart \/ SecondPasses

LinksSpec == LinksInit /\ [][LinksNext]_linkVars

-----------------------------------------------------------------------------
(* Properties. *)

\* signed_media.mjs: whatever is served without a session is a whole recording
\* through a link that was minted for that very recording, within its few minutes,
\* and not since it was written by halves, or for another one.
ServedAsMinted ==
  \A d \in delivered : d.bytes = "whole" /\ d.url \in links /\ d.at < d.url.exp

\* routes.mjs, MEDIA_SIGNING_SECRET: a link works until it expires, on whichever
\* process it lands, if the secret is set; and then no more.
LinksLive == MEDIA_SIGNING_SECRET => \A l \in links : verifySignedUrl(l) = (second < l.exp)
=============================================================================
