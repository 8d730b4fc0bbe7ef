--------------------------------- MODULE Sdp ---------------------------------
(***************************************************************************)
(* How a channel edits its offer before it sends it (sdputils.py, and the  *)
(* loops over the transceivers in OwtChannel.publish and subscribe): the   *)
(* payloads of a section are put in the order of the preferred codecs, the *)
(* other codecs are taken out, and bitrates are set, one section after the *)
(* other in one text.                                                      *)
(*                                                                         *)
(* The text is a sequence of lines, a line a record of what the code looks *)
(* for in it; it ends with the empty line that splitting leaves.  Names of *)
(* codecs and numbers of payloads are atoms: the code compares them as     *)
(* parts of lines, but none that aiortc offers is part of another within a *)
(* section.  Likewise a mid that begins like another one comes first,      *)
(* because they are numbered in order; the search for one that came later  *)
(* would not end.                                                          *)
(*                                                                         *)
(* The specification carries the module's name, because the proofs extend  *)
(* this module and Signatures together.                                    *)
(***************************************************************************)
EXTENDS Integers, Sequences, FiniteSets, SequencesExt

CONSTANTS
  Layouts,   \* the types of the sections a connection may have, in order
  Media,     \* what aiortc offers for a type: payload, codec, what it repairs
  Wishes     \* the options of the call

VARIABLES
  sdp,      \* the lines of the text that is sent
  layout,   \* the types of its sections, by their mids
  options,  \* what the caller asked for
  first,    \* the mid of the call's first transceiver
  mid,      \* the mid of the transceiver that is dealt with
  made      \* how many edits its section has seen

sdpVars == << sdp, layout, options, first, mid, made >>

-----------------------------------------------------------------------------
(* What is offered and what is asked for                                   *)

Types == {"audio", "video"}
None == -1   \* what a payload repairs that repairs none

AllowList == [audio |-> << "CN", "telephone-event" >>, video |-> << "red", "ulpfec", "flexfec" >>]

ASSUME LayoutsAssumption == Layouts \subseteq Seq(Types)

\* A payload has one number and one payload that repairs it, which is told by
\* its parameters, is repaired by none, and has a codec nobody asks for.
ASSUME MediaAssumption ==
  /\ Media \in [Types -> Seq([pt : Nat, codec : STRING, apt : Nat \cup {None}, fmtp : BOOLEAN])]
  /\ \A type \in Types : \A i, j \in DOMAIN Media[type] :
       LET c == Media[type][i]  d == Media[type][j]
       IN  c.pt = d.pt \/ (c.apt = d.apt /\ c.apt # None) => i = j
  /\ \A type \in Types : \A i \in DOMAIN Media[type] :
       LET c == Media[type][i]
       IN  /\ c.codec # "none"
           /\ c.apt # None =>
                /\ c.fmtp /\ c.codec \notin ToSet(AllowList[type])
                /\ \E j \in DOMAIN Media[type] :
                     Media[type][j].pt = c.apt /\ Media[type][j].apt = None

Medium == [form : {"rtc", "codecs"}, list : Seq([codec : STRING, rate : Nat])]
NamedIn(medium) == {e.codec : e \in ToSet(medium.list)}

\* The enumerations of constants.py: no codec is of both types, none is a repair.
ASSUME WishesAssumption ==
  \A o \in Wishes :
    /\ o \in [call : {"publish", "subscribe"}, videoCodecs : Seq(STRING),
              audio : Medium, video : Medium]
    /\ \A type \in Types : \A c \in ToSet(Media[type]) :
         /\ \A other \in Types \ {type} : c.codec \notin NamedIn(o[other])
         /\ c.apt # None => c.codec \notin ToSet(o.videoCodecs) \cup NamedIn(o[type])

-----------------------------------------------------------------------------
(* The offer                                                               *)

SessionLine == [key |-> "session"]
EndLine == [key |-> "end"]
MLine(type, pts) == [key |-> "m", type |-> type, pts |-> pts]
MidLine(m) == [key |-> "mid", mid |-> m]
Rtpmap(c) == [key |-> "rtpmap", pt |-> c.pt, codec |-> c.codec]
Feedback(c) == [key |-> "rtcp-fb", pt |-> c.pt]
Fmtp(c, rate) == [key |-> "fmtp", pt |-> c.pt, apt |-> c.apt, rate |-> rate]

PayloadLines(c) ==
  IF c.fmtp THEN << Rtpmap(c), Feedback(c), Fmtp(c, 0) >> ELSE << Rtpmap(c), Feedback(c) >>

SectionLines(type, m) ==
  << MLine(type, [i \in DOMAIN Media[type] |-> Media[type][i].pt]), MidLine(m) >>
  \o FlattenSeq([i \in DOMAIN Media[type] |-> PayloadLines(Media[type][i])])

\* createOffer: the session's lines, the sections, and the end of the text.
Offer(types) ==
  << SessionLine >> \o FlattenSeq([i \in DOMAIN types |-> SectionLines(types[i], i)])
  \o << EndLine >>

-----------------------------------------------------------------------------
(* sdputils                                                                *)

IsM(line) == line.key = "m"

\* findLineInRange, findMLineRangeWithMID.  After the last section the end is -1, which leaves
\* the last line of the text to the tail.
RangeToTheEnd(lines, m) ==
  LET at == SelectInSubSeq(lines, 1, Len(lines), LAMBDA l : l = MidLine(m))
      next == SelectInSubSeq(lines, at, Len(lines), IsM)
  IN  [first |-> SelectLastInSubSeq(lines, 1, at, IsM),
       last |-> IF next = 0 THEN Len(lines) ELSE next]
SectionRange(lines, m) ==
  LET at == SelectInSubSeq(lines, 1, Len(lines), LAMBDA l : l = MidLine(m))
      next == SelectInSubSeq(lines, at, Len(lines), IsM)
  IN  [first |-> SelectLastInSubSeq(lines, 1, at, IsM),
       last |-> (IF next = 0 THEN Len(lines) ELSE next) - 1]

SectionOf(lines, m) ==
  LET range == SectionRange(lines, m) IN SubSeq(lines, range.first, range.last)

\* The text with another section of m.
Replaced(lines, m, section) ==
  LET range == SectionRange(lines, m)
  IN  SubSeq(lines, 1, range.first - 1) \o section \o SubSeq(lines, range.last + 1, Len(lines))

Describes(line, codec) == line.key = "rtpmap" /\ line.codec = codec

FirstPayloadOf(lines, codec) ==
  LET k == SelectInSubSeq(lines, 1, Len(lines), LAMBDA l : Describes(l, codec))
  IN  IF k = 0 THEN << >> ELSE << lines[k].pt >>
PayloadsOf(lines, codec) ==
  FlattenSeq([k \in DOMAIN lines |->
                IF Describes(lines[k], codec) THEN << lines[k].pt >> ELSE << >>])

\* appendRtxPayloads
AppendRtxPayloads(lines, pts) ==
  pts \o FlattenSeq([i \in DOMAIN pts |->
           LET f == SelectInSubSeq(lines, 1, Len(lines),
                                   LAMBDA l : l.key = "fmtp" /\ l.apt = pts[i])
           IN  IF f = 0 THEN << >> ELSE << lines[f].pt >>])

\* removeCodecFramALine, of several payloads
RemoveCodecs(lines, pts) ==
  FlattenSeq([k \in DOMAIN lines |->
                IF lines[k].key \in {"rtpmap", "rtcp-fb", "fmtp"} /\ lines[k].pt \in pts
                THEN << >> ELSE << lines[k] >>])

ReorderSection(lines, type, codecs) ==
  LET m == SelectInSubSeq(lines, 1, Len(lines), LAMBDA l : IsM(l) /\ l.type = type)
      wanted == codecs \o AllowList[type]
      pts == AppendRtxPayloads(lines,
               FlattenSeq([i \in DOMAIN wanted |-> PayloadsOf(lines, wanted[i])]))
  IN  IF m = 0 THEN lines
      ELSE RemoveCodecs([lines EXCEPT ![m].pts = pts], ToSet(lines[m].pts) \ ToSet(pts))

ReorderCodecs(lines, type, codecs, m) ==
  IF codecs = << >> THEN lines
  ELSE Replaced(lines, m, ReorderSection(SectionOf(lines, m), type, codecs))

\* setCodecParam: the first payload of the codec, if it has parameters at all.
SetRateOfAny(lines, codec, rate) ==
  LET f == SelectInSubSeq(lines, 1, Len(lines), LAMBDA l : l.key = "fmtp")
  IN  IF f = 0 THEN lines ELSE [lines EXCEPT ![f].rate = rate]
SetRateOfSection(lines, codec, rate) ==
  LET pts == PayloadsOf(lines, codec)
      f == SelectInSubSeq(lines, 1, Len(lines),
                          LAMBDA l : l.key = "fmtp" /\ pts # << >> /\ l.pt = pts[1])
  IN  IF f = 0 THEN lines ELSE [lines EXCEPT ![f].rate = rate]

\* setMaxBitrate, of one of the encodings
SetMaxBitrate(lines, codec, rate, m) ==
  IF rate = 0 \/ codec = "none" THEN lines
  ELSE Replaced(lines, m, SetRateOfSection(SectionOf(lines, m), codec, rate))

-----------------------------------------------------------------------------
(* OwtChannel                                                              *)

Codecs(medium) ==
  IF medium.form = "rtc" THEN << >>
  ELSE FlattenSeq([i \in DOMAIN medium.list |->
                     IF medium.list[i].codec = "none" THEN << >> ELSE << medium.list[i].codec >>])

Reorder(type, codecs) == [op |-> "reorder", type |-> type, codecs |-> codecs]
Rate(e) == [op |-> "rate", codec |-> e.codec, rate |-> e.rate]

\* _setRtpReceiverOptions: the calls of reorderCodecs
Reorders(o) ==
  IF o.call = "publish" /\ "rtc" \in {o.audio.form, o.video.form}
  THEN IF o.video.form = "rtc" THEN << Reorder("video", o.videoCodecs) >> ELSE << >>
  ELSE << Reorder("audio", Codecs(o.audio)), Reorder("video", Codecs(o.video)) >>

\* _setRtpSenderOptions, of a publish only: the encodings setMaxBitrate goes through
Rates(o, medium) ==
  IF o.call = "publish" /\ medium.form = "codecs"
  THEN [i \in DOMAIN medium.list |-> Rate(medium.list[i])] ELSE << >>

Edits(o) == Reorders(o) \o Rates(o, o.audio) \o Rates(o, o.video)

Edited(lines, edit, m) ==
  IF edit.op = "reorder" THEN ReorderCodecs(lines, edit.type, edit.codecs, m)
  ELSE SetMaxBitrate(lines, edit.codec, edit.rate, m)

\* The connection may have had sections before the call's transceivers.
SdpInit ==
  /\ layout \in Layouts /\ options \in Wishes
  /\ sdp = Offer(layout)
  /\ first \in DOMAIN layout /\ mid = first /\ made = 0

\* The next edit of the transceiver's section, and the next transceiver of the
\* loop.  A subscribe edits what localDescription returns, a new object each time:
\* its edits are lost, and what it sends is the offer.
Edit ==
  /\ mid <= Len(layout) /\ made < Len(Edits(options))
  /\ sdp' = IF options.call = "publish" THEN Edited(sdp, Edits(options)[made + 1], mid) ELSE sdp
  /\ made' = made + 1
  /\ UNCHANGED << layout, options, first, mid >>

NextTransceiver ==
  /\ mid <= Len(layout) /\ made = Len(Edits(options))
  /\ mid' = mid + 1 /\ made' = 0
  /\ UNCHANGED << sdp, layout, options, first >>

SdpNext == Edit \/ NextTransceiver
SdpSpec == SdpInit /\ [][SdpNext]_sdpVars

-----------------------------------------------------------------------------
(* Properties                                                              *)

\* The m-line of m's section, and what follows it up to the next one or the end.
Home(lines, m) ==
  CHOOSE k \in DOMAIN lines : k < Len(lines) /\ IsM(lines[k]) /\ lines[k + 1] = MidLine(m)
Section(lines, m) ==
  LET home == Home(lines, m)
      ends == {k \in (home + 1)..Len(lines) : IsM(lines[k]) \/ lines[k] = EndLine}
  IN  SubSeq(lines, home, Min(ends) - 1)

Listed(lines) == ToSet(lines[1].pts)
Of(lines, keys) == {l.pt : l \in {l \in ToSet(lines) : l.key \in keys}}

\* findMLineRangeWithMID, reorderCodecs, setCodecParam: after every edit of one
\* section the ends of the text and the order of its m-lines are those of the
\* offer, and so is every section that no transceiver of the call has reached.
\* Every section is whole: its m-line lists the payloads it describes, its
\* attributes speak of no other ones, and what repairs a payload stays or goes
\* with it.
SectionsWhole ==
  /\ Head(sdp) = SessionLine /\ Last(sdp) = EndLine
  /\ \A k \in DOMAIN sdp : IsM(sdp[k]) => \E m \in DOMAIN layout : Home(sdp, m) = k
  /\ \A m \in DOMAIN layout :
       /\ sdp[Home(sdp, m)].type = layout[m]
       /\ \A n \in 1..(m - 1) : Home(sdp, n) < Home(sdp, m)
       /\ m \notin first..mid => Section(sdp, m) = SectionLines(layout[m], m)
  /\ \A m \in DOMAIN layout :
       LET lines == Section(sdp, m)
       IN  /\ Listed(lines) = Of(lines, {"rtpmap"})
           /\ Of(lines, {"rtcp-fb", "fmtp"}) \subseteq Listed(lines)
           /\ \A c \in ToSet(Media[layout[m]]) :
                c.apt # None => (c.pt \in Listed(lines) <=> c.apt \in Listed(lines))

\* The sections that were dealt with.
Dealt == first..(mid - 1)

\* What the caller asked for in a section of this type.
Preferred(type) ==
  IF options.call = "publish" /\ "rtc" \in {options.audio.form, options.video.form}
  THEN IF type = "video" /\ options.video.form = "rtc" THEN options.videoCodecs ELSE << >>
  ELSE Codecs(options[type])

\* In a section that a publish has dealt with, the payloads of the preferred
\* codecs are those of the offer, in the order of preference with the allowed ones
\* behind them, and nothing else is left but what repairs them.  None is listed
\* twice, unless its codec was asked for twice.  It is not so of a subscribe,
\* whose preferences never reach the text.
PreferenceFollowed ==
  options.call = "publish" =>
  \A m \in {m \in Dealt : Preferred(layout[m]) # << >>} :
    LET wanted == Preferred(layout[m]) \o AllowList[layout[m]]
        offered == ToSet(Media[layout[m]])
        chosen == {c \in offered : c.codec \in ToSet(wanted)}
        pts == Section(sdp, m)[1].pts
        Before(c, d) == \E i, j \in DOMAIN pts : i < j /\ pts[i] = c.pt /\ pts[j] = d.pt
    IN  /\ ToSet(pts) = {c.pt : c \in {c \in offered : \E d \in chosen : d.pt \in {c.pt, c.apt}}}
        /\ \A c, d \in chosen : \A i, j \in DOMAIN wanted :
             i < j /\ wanted[i] = c.codec /\ wanted[j] = d.codec /\ c # d => Before(c, d)
        /\ IsInjective(wanted) => IsInjective(pts)

\* _setMaxBitrate: the first payload of every codec with a rate has the rate
\* that was named last, if it has parameters, and no other one has any.
RateOf(medium, codec) ==
  LET named == {i \in DOMAIN medium.list : medium.list[i].codec = codec /\ medium.list[i].rate # 0}
  IN  IF medium.form = "codecs" /\ named # {} THEN medium.list[Max(named)].rate ELSE 0

RatesSet ==
  \A m \in Dealt :
    LET media == Media[layout[m]]
        Foremost(i) == \A j \in 1..(i - 1) : media[j].codec # media[i].codec
    IN  \A l \in {l \in ToSet(Section(sdp, m)) : l.key = "fmtp"} :
          \E i \in DOMAIN media :
            /\ media[i].pt = l.pt
            /\ l.rate = IF options.call = "publish" /\ Foremost(i)
                        THEN RateOf(options[layout[m]], media[i].codec) ELSE 0
=============================================================================
