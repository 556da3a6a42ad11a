---------------------------- MODULE MediaProcessing ----------------------------
(***************************************************************************)
(* One attempt of a media job (worker/media_loop.go, handleMediaJob, and   *)
(* media.Process): the original is downloaded, told by its own bytes,      *)
(* measured against the limits, decoded or handed to ffmpeg, and what is   *)
(* made of it is uploaded and published; in a scratch directory, under a   *)
(* deadline, on a machine that may lack the tools or be told to stop.      *)
(*                                                                         *)
(* Pixels and samples are left out: an original is what its bytes say of   *)
(* it.  Decoders, ffmpeg and the resampling library are external, the      *)
(* library's floating point exact.                                         *)
(***************************************************************************)
EXTENDS Integers, Sequences, FiniteSets

CONSTANTS
  Originals,     \* what uploads hold
  Edits,         \* trims and mutes Process can be asked for
  MaxOriginal, MaxSide, MaxPixels, MaxFrames, MaxMillis,  \* the worker's Limits
  DefaultFrames, \* the default limit of frames, with which probes count
  CanonicalSide, ThumbSide, TerminalSide

Heads == {"FFD8FF", "PNG", "GIF87a", "GIF89a", "RIFF WEBP", "EBML webm", "EBML",
          "ftyp qt", "ftyp isom", "ftyp"}
Types == {"image/jpeg", "image/png", "image/gif", "image/webp",
          "video/webm", "video/quicktime", "video/mp4", "none"}
Blocks == {"frame", "extension", "trailer", "junk"}

OriginalType ==
  [head: Heads, declared: Types, size: Nat,
   parses: BOOLEAN,      \* its header does
   whole: BOOLEAN,       \* all of it decodes
   w: Nat, h: Nat, turned: BOOLEAN, alpha: BOOLEAN,
   blocks: Seq(Blocks),  \* of a GIF, the chunks of a WebP
   millis: Nat, audio: BOOLEAN]

Limits == {MaxOriginal, MaxSide, MaxPixels, MaxFrames, MaxMillis}

ASSUME MediaAssumption ==
  /\ Originals \subseteq OriginalType
  /\ Edits \subseteq [start: Nat, end: Nat, muted: BOOLEAN]
  /\ Limits \subseteq Nat
  /\ MaxFrames <= DefaultFrames
  /\ {CanonicalSide, ThumbSide, TerminalSide, DefaultFrames} \subseteq Nat \ {0}

VARIABLES
  media, edit, \* the job's original; opts
  tools,       \* installed where the worker runs
  step,        \* where the attempt is
  cut,         \* why Process's context has ended
  stopping,    \* the worker's own context is cancelled
  scratch,     \* files in the attempt's directory
  made,        \* variants, by kind
  sent,        \* kinds in the bucket
  fault,       \* what failed, and whether a retry is pointless
  verdict,     \* what the attempt has left in the database
  gone, broke  \* history: no such object; a tool failed of itself

attempt == <<step, cut, stopping, scratch, made, sent, fault, verdict, gone, broke>>
mediaVars == <<media, edit, tools, attempt>>

NoFault == [code |-> "none", final |-> FALSE]

-----------------------------------------------------------------------------
(* Telling what it is *)

\* Sniff: by its first bytes only.
Sniffed(o) ==
  CASE o.head = "FFD8FF" -> "image/jpeg"
    [] o.head = "PNG" -> "image/png"
    [] o.head \in {"GIF87a", "GIF89a"} -> "image/gif"
    [] o.head = "RIFF WEBP" -> "image/webp"
    [] o.head = "EBML webm" -> "video/webm"
    [] o.head = "ftyp qt" -> "video/quicktime"
    [] o.head = "ftyp isom" -> "video/mp4"
    [] OTHER -> "none"

IsImage(o) == Sniffed(o) \in {"image/jpeg", "image/png", "image/gif", "image/webp"}
IsVideo(o) == Sniffed(o) \in {"video/webm", "video/quicktime", "video/mp4"}

\* The blocks before the trailer, or before one that cannot be read.
Reached(o) ==
  {i \in DOMAIN o.blocks : \A j \in 1..i : o.blocks[j] \in {"frame", "extension"}}
Frames(o) ==
  IF Sniffed(o) \in {"image/gif", "image/webp"}
  THEN {i \in Reached(o) : o.blocks[i] = "frame"} ELSE {}

\* countGIFFrames, countWebPFrames: the scan ends with the frame that is one too
\* many for the default limit.
Counted(o) ==
  IF Cardinality(Frames(o)) > DefaultFrames THEN DefaultFrames + 1
  ELSE Cardinality(Frames(o))

\* The scan meets what it cannot read before that.
Unreadable(o) ==
  /\ Sniffed(o) \in {"image/gif", "image/webp"}
  /\ Cardinality(Frames(o)) <= DefaultFrames
  /\ \E i \in DOMAIN o.blocks : o.blocks[i] = "junk" /\ 1..(i - 1) \subseteq Reached(o)

Animated(o) == Counted(o) > 1

\* What of a video is kept, from where to where it is trimmed.
Length(o, e) ==
  IF e.end > e.start THEN e.end - e.start
  ELSE IF e.start > 0 THEN o.millis - e.start ELSE o.millis

\* The first rule that turns away what has been probed, "none" if all let it pass.
Oversized(o) == o.w > MaxSide \/ o.h > MaxSide

\* processImage: before a pixel is decoded.
ImageRefusal(o) ==
  IF \/ Oversized(o) \/ o.w * o.h > MaxPixels
     \/ Animated(o) /\ Counted(o) > MaxFrames
  THEN "too_many_pixels" ELSE "none"

\* processVideo.
VideoRefusal(o, e) ==
  IF "ffmpeg" \notin tools THEN "ffmpeg_unavailable"
  ELSE IF Oversized(o) THEN "too_many_pixels"
  ELSE IF Length(o, e) <= 0 THEN "corrupt_media"
  ELSE IF Length(o, e) > MaxMillis THEN "too_long" ELSE "none"

Refusal(o, e) ==
  IF o.declared \notin {"none", Sniffed(o)} THEN "mime_mismatch"
  ELSE IF IsImage(o) THEN ImageRefusal(o) ELSE VideoRefusal(o, e)

-----------------------------------------------------------------------------
(* What is made of it *)

\* EXIF orientation of stills, rotation of videos: baked into the pixels.
Upright(o) == IF o.turned THEN [w |-> o.h, h |-> o.w] ELSE [w |-> o.w, h |-> o.h]

\* The other side, when the longer one is brought down to the bound.
Scaled(side, longer, bound) ==
  IF (bound * side) \div longer = 0 THEN 1 ELSE (bound * side) \div longer

\* fitDown, and the library's Fit.
FitDown(s, bound) ==
  IF s.w <= bound /\ s.h <= bound THEN s
  ELSE IF s.w > s.h THEN [w |-> bound, h |-> Scaled(s.h, s.w, bound)]
  ELSE [w |-> Scaled(s.w, s.h, bound), h |-> bound]

\* 4:2:0 subsampling asks for even sides; none is left of one pixel.
Even(s) == [w |-> 2 * (s.w \div 2), h |-> 2 * (s.h \div 2)]

Variant(s, mime, millis, audio) ==
  [w |-> s.w, h |-> s.h, mime |-> mime, millis |-> millis, audio |-> audio]

Nothing == [kind \in {} |-> NoFault]

\* processImage.
Still(o) ==
  LET mime == IF o.alpha /\ Sniffed(o) # "image/jpeg" THEN "image/png" ELSE "image/jpeg"
  IN [image |-> Variant(FitDown(Upright(o), CanonicalSide), mime, 0, FALSE),
      thumb |-> Variant(FitDown(Upright(o), ThumbSide), mime, 0, FALSE),
      terminal |-> Variant(FitDown(Upright(o), TerminalSide), "image/png", 0, FALSE)]

Lesser(a, b) == IF a < b THEN a ELSE b

\* processVideo, and processAnimatedImage, which knows no trim and no sound.
Film(o, e) ==
  IF IsVideo(o)
  THEN Variant(Even(Upright(o)), "video/mp4", Lesser(Length(o, e), o.millis - e.start),
               o.audio /\ ~e.muted)
  ELSE Variant(Even([w |-> o.w, h |-> o.h]), "video/mp4", Lesser(o.millis, MaxMillis), FALSE)

Moving(o, e) ==
  LET size == [w |-> Film(o, e).w, h |-> Film(o, e).h] IN
  [video |-> Film(o, e), poster |-> Variant(size, "image/png", 0, FALSE),
   terminal |-> Variant(FitDown(size, TerminalSide), "image/png", 0, FALSE)]

\* libx264 takes it: it decodes, and something is left of its sides and its length.
Encodable(o, e) ==
  LET film == Film(o, e) IN o.whole /\ film.w > 0 /\ film.h > 0 /\ film.millis > 0

-----------------------------------------------------------------------------
(* The attempt *)

MediaTypeOK ==
  /\ media \in Originals /\ edit \in Edits /\ tools \subseteq {"ffmpeg", "ffprobe"}
  /\ step \in {"downloading", "inspecting", "making", "transcoding", "measuring",
               "postering", "uploading", "publishing", "failing", "cleaning",
               "recovering", "over", "killed"}
  /\ cut \in {"no", "deadline", "cancelled"} /\ stopping \in BOOLEAN
  /\ scratch \subseteq {"original", "video", "poster"}
  /\ made = Nothing \/ made = Still(media) \/ made = Moving(media, edit)
  /\ sent \in 0..3
  /\ fault \in [code: {"none", "unsupported_media", "mime_mismatch", "corrupt_media",
                       "too_large", "too_long", "too_many_pixels", "processing_timeout",
                       "ffmpeg_unavailable", "internal"},
                final: BOOLEAN]
  /\ verdict \in {"none", "published", "dropped", "failed", "requeued", "unrecorded"}
  /\ {gone, broke} \subseteq BOOLEAN

\* The attempt has claimed its job.
MediaInit ==
  /\ media \in Originals /\ edit \in Edits /\ tools \in SUBSET {"ffmpeg", "ffprobe"}
  /\ step = "downloading" /\ cut = "no" /\ stopping = FALSE
  /\ scratch = {} /\ made = Nothing /\ sent = 0
  /\ fault = NoFault /\ verdict = "none" /\ gone = FALSE /\ broke = FALSE

InProcess == step \in {"inspecting", "making", "transcoding", "measuring", "postering"}

\* The constructors of errors: a retry could succeed but for these.
IsFinal(code) == code \notin {"internal", "ffmpeg_unavailable", "processing_timeout"}

\* handleMediaJob is about to report it.
Reports(code, final) ==
  /\ step' = "failing" /\ fault' = [code |-> code, final |-> final]
  /\ UNCHANGED <<stopping, sent, verdict>>

\* Process returns an error and takes its own directory along.
Refuse(code) ==
  /\ Reports(code, IsFinal(code))
  /\ scratch' = scratch \ {"video", "poster"}
  /\ UNCHANGED <<cut, made, gone>>

Proceed(to, files, variants) ==
  /\ step' = to /\ scratch' = files
  /\ made' = variants
  /\ UNCHANGED <<cut, stopping, sent, fault, verdict, gone>>

DownloadOriginal ==
  /\ step = "downloading"
  /\ \/ /\ ~stopping /\ media.size <= MaxOriginal
        /\ Proceed("inspecting", {"original"}, made)
     \/ /\ ~stopping /\ media.size > MaxOriginal
        /\ Reports("too_large", TRUE) /\ scratch' = {"original"}
        /\ UNCHANGED <<cut, made, gone>>
     \/ /\ ~stopping /\ gone' = TRUE
        /\ Reports("internal", TRUE)
        /\ UNCHANGED <<cut, scratch, made>>
     \/ /\ Reports("internal", FALSE)
        /\ scratch' \in {scratch, {"original"}}
        /\ UNCHANGED <<cut, made, gone>>
  /\ UNCHANGED broke

\* runFFmpeg, runFFprobe: a tool may exceed the deadline or a timeout of its own,
\* be killed with the worker's context, or fail.
Outcomes(tool, sound) ==
  IF tool \notin tools THEN {"ffmpeg_unavailable"}
  ELSE IF cut = "deadline" THEN {"processing_timeout"}
  ELSE IF cut = "cancelled" THEN {"corrupt_media"}
  ELSE {"processing_timeout", "corrupt_media"} \cup {r \in {"done"} : sound}

Run(tool, sound, outcome) ==
  /\ outcome \in Outcomes(tool, sound)
  /\ broke' = (broke \/ (sound /\ cut = "no" /\ outcome = "corrupt_media"))

\* processImage and processVideo turn it away, or begin.
Judge ==
  LET refusal == Refusal(media, edit) IN
  IF refusal # "none" THEN Refuse(refusal)
  ELSE Proceed(IF IsVideo(media) \/ Animated(media) THEN "transcoding" ELSE "making",
               scratch, made)

InspectBytes ==
  /\ step = "inspecting" /\ (media.size = 0 \/ ~IsVideo(media))
  /\ IF media.size = 0 THEN Refuse("corrupt_media")
     ELSE IF ~IsImage(media) THEN Refuse("unsupported_media")
     ELSE IF ~media.parses \/ Unreadable(media) THEN Refuse("corrupt_media")
     ELSE Judge
  /\ UNCHANGED broke

InspectVideo ==
  /\ step = "inspecting" /\ media.size > 0 /\ IsVideo(media)
  /\ \E r \in {"done", "ffmpeg_unavailable", "processing_timeout", "corrupt_media"} :
       /\ Run("ffprobe", media.parses, r)
       /\ IF r # "done" THEN Refuse(r)
          ELSE IF media.w = 0 \/ media.h = 0 THEN Refuse("corrupt_media")
          ELSE Judge

\* Decoding consults no context, and nothing is made of an image without pixels.
MakeStill ==
  /\ step = "making"
  /\ \/ ~media.whole /\ Refuse("corrupt_media")
     \/ /\ media.whole /\ media.w > 0 /\ media.h > 0
        /\ Proceed("uploading", scratch, Still(media))
  /\ UNCHANGED broke

UseTool(from, tool, sound, to, files, variants) ==
  /\ step = from
  /\ \E r \in {"done", "ffmpeg_unavailable", "processing_timeout", "corrupt_media"} :
       /\ Run(tool, sound, r)
       /\ IF r = "done" THEN Proceed(to, files, variants) ELSE Refuse(r)

Transcode == UseTool("transcoding", "ffmpeg", Encodable(media, edit),
                     "measuring", scratch \cup {"video"}, made)
MeasureOutput == UseTool("measuring", "ffprobe", TRUE, "postering", scratch, made)
ExtractPoster == UseTool("postering", "ffmpeg", TRUE, "uploading",
                         scratch \cup {"poster"}, Moving(media, edit))

\* A file cannot be written or read, a variant is too large, or a decoder panics,
\* which leaves Process's directory where it is.
InternalError ==
  /\ InProcess
  /\ Reports("internal", FALSE)
  /\ scratch' \in {scratch, scratch \ {"video", "poster"}}
  /\ UNCHANGED <<cut, made, gone, broke>>

ProcessTimesOut ==
  /\ InProcess /\ cut = "no"
  /\ cut' = "deadline"
  /\ UNCHANGED <<step, stopping, scratch, made, sent, fault, verdict, gone, broke>>

Kinds == IF "image" \in DOMAIN made THEN <<"image", "thumb", "terminal">>
         ELSE <<"video", "poster", "terminal">>

\* The video is read from its file, the others from memory.
UploadVariant ==
  /\ step = "uploading"
  /\ \/ /\ ~stopping /\ (Kinds[sent + 1] = "video" => "video" \in scratch)
        /\ sent' = sent + 1
        /\ step' = IF sent + 1 = Len(Kinds) THEN "publishing" ELSE step
        /\ UNCHANGED <<stopping, fault, verdict>>
     \/ Reports("internal", FALSE)
  /\ UNCHANGED <<cut, scratch, made, gone, broke>>

\* The Story may be gone; an error leaves the job to the end of its lease.
PublishResult ==
  /\ step = "publishing" /\ step' = "cleaning"
  /\ verdict' \in IF stopping THEN {"unrecorded"} ELSE {"published", "dropped", "unrecorded"}
  /\ UNCHANGED <<cut, stopping, scratch, made, sent, fault, gone, broke>>

\* Slip: the record is made with a context that is never cancelled.
RecordableAlways == TRUE

\* The statement runs in the worker's context.
Recordable == ~stopping

\* FailMediaJob.
FailMediaJob ==
  /\ step = "failing" /\ step' = "cleaning"
  /\ \/ Recordable /\ verdict' = IF fault.final THEN "failed" ELSE "requeued"
     \/ verdict' = "unrecorded"
  /\ UNCHANGED <<cut, stopping, scratch, made, sent, fault, gone, broke>>

\* The deferred removals.
RemoveScratch ==
  /\ step = "cleaning" /\ step' = "over" /\ scratch' = {}
  /\ UNCHANGED <<cut, stopping, made, sent, fault, verdict, gone, broke>>

\* A panic outside of Process: the directory is removed first.
HandlerPanics ==
  /\ step \in {"downloading", "uploading", "publishing"}
  /\ step' = "recovering" /\ scratch' = {}
  /\ fault' = [code |-> "internal", final |-> FALSE]
  /\ UNCHANGED <<cut, stopping, made, sent, verdict, gone, broke>>

\* Recorded in a context of its own.
RecoverPanic ==
  /\ step = "recovering" /\ step' = "over"
  /\ verdict' \in {"requeued", "unrecorded"}
  /\ UNCHANGED <<cut, stopping, scratch, made, sent, fault, gone, broke>>

\* SIGTERM while a run-once execution works; the loop's attempts have a context that
\* nothing cancels, and end as if it had not come.
WorkerStops ==
  /\ ~stopping /\ stopping' = TRUE
  /\ cut' = IF cut = "no" THEN "cancelled" ELSE cut
  /\ UNCHANGED <<step, scratch, made, sent, fault, verdict, gone, broke>>

\* Lost with its machine, directory and all.
WorkerKilled ==
  /\ step \notin {"over", "killed"} /\ step' = "killed"
  /\ UNCHANGED <<cut, stopping, scratch, made, sent, fault, verdict, gone, broke>>

MediaNext ==
  /\ \/ DownloadOriginal \/ InspectBytes \/ InspectVideo \/ MakeStill
     \/ Transcode \/ MeasureOutput \/ ExtractPoster \/ InternalError \/ ProcessTimesOut
     \/ UploadVariant \/ PublishResult \/ FailMediaJob \/ RemoveScratch
     \/ HandlerPanics \/ RecoverPanic \/ WorkerStops \/ WorkerKilled
  /\ UNCHANGED <<media, edit, tools>>

MediaSpec == MediaInit /\ [][MediaNext]_mediaVars

-----------------------------------------------------------------------------
(* Properties *)

\* What limits.go allows and a decoder takes.
Acceptable(o, e) ==
  /\ o.size \in 1..MaxOriginal
  /\ Sniffed(o) # "none" /\ o.declared \in {"none", Sniffed(o)}
  /\ o.parses /\ o.whole /\ o.w \in 1..MaxSide /\ o.h \in 1..MaxSide
  /\ IsImage(o) => o.w * o.h <= MaxPixels /\ ~Unreadable(o)
  /\ Cardinality(Frames(o)) > 1 => Cardinality(Frames(o)) <= MaxFrames
  /\ IsVideo(o) => Length(o, e) \in 1..MaxMillis
  /\ IsVideo(o) \/ Cardinality(Frames(o)) > 1 => Encodable(o, e)

\* s is brought down to t: not beyond the bound, never up, and in proportion but
\* for less than a pixel.
BroughtDown(s, t, bound) ==
  /\ t.w \in 1..bound /\ t.h \in 1..bound /\ t.w <= s.w /\ t.h <= s.h
  /\ \/ t.w * s.h - t.h * s.w \in (1 - s.w)..(s.w - 1)
     \/ t.w * s.h - t.h * s.w \in (1 - s.h)..(s.h - 1)

\* A whole set, of stills or of a film, that players and terminals can show.
StillsPromised(variants, o) ==
  /\ BroughtDown(Upright(o), variants.image, CanonicalSide)
  /\ BroughtDown(Upright(o), variants.thumb, ThumbSide)
  /\ BroughtDown(Upright(o), variants.terminal, TerminalSide)
FilmPromised(variants, o, e) ==
  LET film == variants.video IN
  /\ film.w \in 2..MaxSide /\ film.h \in 2..MaxSide /\ film.w % 2 = 0 /\ film.h % 2 = 0
  /\ film.millis \in 1..MaxMillis
  /\ film.audio => IsVideo(o) /\ o.audio /\ ~e.muted
  /\ variants.poster.w = film.w /\ variants.poster.h = film.h
  /\ BroughtDown(variants.poster, variants.terminal, TerminalSide)

\* What becomes of an upload is its own doing: what is published kept every limit
\* of limits.go and is a whole set of variants within their bounds; a failure
\* without retry (errors.go:39-43) is the upload's, unless the object was gone or
\* a tool failed of itself, and never that of a deadline or a stop; the video's
\* file is there until it is sent (process.go:36-44), and no file afterwards.
ProcessedAsPromised ==
  /\ verdict = "published" =>
       /\ Acceptable(media, edit) /\ sent = 3
       /\ IF IsVideo(media) \/ Cardinality(Frames(media)) > 1
          THEN FilmPromised(made, media, edit) ELSE StillsPromised(made, media)
  /\ verdict = "failed" => ~Acceptable(media, edit) \/ gone \/ broke
  /\ step = "uploading" /\ Kinds[sent + 1] = "video" => "video" \in scratch
  /\ step = "over" => scratch = {}

=============================================================================
