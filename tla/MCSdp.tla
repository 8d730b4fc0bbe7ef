-------------------------------- MODULE MCSdp --------------------------------
EXTENDS Sdp

\* aiortc's codecs; each video codec has a payload that repairs it.
Payload(pt, codec, apt, fmtp) == [pt |-> pt, codec |-> codec, apt |-> apt, fmtp |-> fmtp]
MCMedia ==
  [audio |-> << Payload(96, "opus", None, FALSE), Payload(0, "PCMU", None, FALSE) >>,
   video |-> << Payload(97, "VP8", None, FALSE), Payload(98, "rtx", 97, TRUE),
                Payload(99, "H264", None, TRUE), Payload(100, "rtx", 99, TRUE),
                Payload(101, "H264", None, TRUE), Payload(102, "rtx", 101, TRUE) >>]

MCLayouts == {<< "audio" >>, << "video" >>, << "video", "audio" >>, << "audio", "video", "video" >>}

\* Up to two preferences; H265 is not offered.
Upto2(S) == {<< >>} \cup {<< x >> : x \in S} \cup {<< x, y >> : x \in S, y \in S}
VideoCodecs == {"VP8", "H264", "H265"}
Encodings(codecs) ==
  [form : {"codecs"}, list : Upto2([codec : codecs \cup {"none"}, rate : {0, 500}])]
AudioEncodings == {e \in Encodings({"PCMU"}) : Len(e.list) < 2}
Rtc == [form |-> "rtc", list |-> << >>]
Plain == [form |-> "codecs", list |-> << >>]

Call(call, videoCodecs, audio, video) ==
  [call |-> call, videoCodecs |-> videoCodecs, audio |-> audio, video |-> video]

\* PublishOptions does not mix the two forms; a subscription names codecs only.
MCWishes ==
  {Call("publish", v, Rtc, Rtc) : v \in Upto2(VideoCodecs)}
  \cup {Call("publish", v, Plain, Rtc) : v \in {<< >>, << "H264" >>}}
  \cup {Call("publish", << >>, a, v) : a \in AudioEncodings, v \in Encodings({"VP8", "H264"})}
  \cup {Call("subscribe", << >>, [Plain EXCEPT !.list = a], [Plain EXCEPT !.list = v]) :
          a \in Upto2([codec : {"PCMU", "opus"}, rate : {0}]), v \in Upto2([codec : VideoCodecs, rate : {0}])}
=============================================================================
