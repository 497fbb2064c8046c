------------------------------ MODULE VideoTiming ------------------------------
(***************************************************************************)
(* The time line of a video, from the timings of the voice                 *)
(* (integrations/tts.py) over the words and scenes of asset_gen            *)
(* (graphs/nodes/asset_gen.py) to the frames, transitions, texts and       *)
(* caption pages of the renderer (render/src/lib/timing.ts, captions.ts,   *)
(* components/Reel.tsx, motion/captions/Captions.tsx).  Time is counted in *)
(* ticks, the thousandths of a second that asset_gen rounds to; the        *)
(* quotients it does not round are rounded down to a tick here.  The       *)
(* providers give the words in the order in which they are spoken, so that *)
(* the sorts by start that follow change nothing.                          *)
(***************************************************************************)
EXTENDS Integers, SequencesExt

CONSTANTS
  MaxWords,    \* bound: words that are spoken, words that are shown
  MaxScenes,   \* bound: scenes of a script
  Beats,       \* bound: the voice starts and ends words on 0..Beats
  Beat,        \* ticks of a beat
  WordLengths, SceneLengths, Transitions,   \* the values that are tried
  FrameTicks,  \* ticks of a frame
  TailTicks,        \* TAIL_S, in ticks
  MaxChars, MaxLines, Gap, Hold,            \* of a caption preset: chars, lines, ticks, ticks
  TextFrames,  \* HOOK_SECONDS and TITLE_SECONDS, in frames
  CtaFrames,   \* CTA_SECONDS, in frames
  MinText,     \* MIN_TEXT_FRAMES
  Exit,        \* frames before the end of its window at which a text begins to leave
  Fades,       \* frames it may take to leave: what presence plays, the last delay included
  Margin       \* frames a text keeps from the CTA card, and starts after its scene

ASSUME TimingAssumption ==
  /\ {MaxWords, MaxScenes, Beats, Beat, FrameTicks, MaxChars, MaxLines} \subseteq Nat \ {0}
  /\ {TailTicks, Gap, Hold, TextFrames, CtaFrames, MinText, Exit, Margin} \subseteq Nat
  /\ WordLengths \cup SceneLengths \subseteq Nat \ {0} /\ Transitions \cup Fades \subseteq Nat
  /\ FrameTicks <= TailTicks   \* so that the voice and its tail always fill a frame

VARIABLES
  at,       \* the step that was done last
  voice,    \* TTSResult: the words, and how long the voice lasts
  words,    \* the words as they are shown
  scenes,   \* of the scenes: how long they last, and their words
  film      \* of the scenes: their frames, and the frames of the transition into them;
            \* and whether there is a hook, and a CTA card

timingVars == <<at, voice, words, scenes, film>>

Span == [start: 0..(Beats * Beat), end: 0..(Beats * Beat)]
Word == [start: 0..(Beats * Beat), end: 0..(Beats * Beat), len: WordLengths]
SeqUpTo(S, n) == UNION {[1..k -> S] : k \in 0..n}

TimingTypeOK ==
  /\ at \in {"script", "voice", "words", "scenes", "film"}
  /\ voice.spans \in Seq(Span) /\ voice.length \in 0..(Beats * Beat)
  /\ words \in Seq(Word) /\ Len(words) <= MaxWords
  /\ DOMAIN scenes.lengths = DOMAIN scenes.parts
  /\ DOMAIN film.frames = DOMAIN film.into

TimingInit ==
  /\ at = "script" /\ voice = [spans |-> <<>>, length |-> 0] /\ words = <<>>
  /\ scenes = [lengths |-> <<>>, parts |-> <<>>]
  /\ film = [frames |-> <<>>, into |-> <<>>, hook |-> FALSE, cta |-> FALSE]

SumTo(q, k) ==
  LET sum[i \in 0..Len(q)] == IF i = 0 THEN 0 ELSE sum[i - 1] + q[i] IN sum[k]
Sum(q) == SumTo(q, Len(q))
Rounded(a, b) == (2 * a + b) \div (2 * b)

\* One word after the other over start..end, each as long as its share of the weights.
Shared(weights, start, end) ==
  LET mark(k) == IF k = Len(weights) THEN end
                 ELSE start + ((end - start) * SumTo(weights, k)) \div Sum(weights)
  IN [k \in DOMAIN weights |-> [start |-> mark(k - 1), end |-> mark(k)]]

\* EdgeTTS and AzureTTS: the spans of the provider, the voice ends with its last word;
\* without words the length of the file, 0 when it cannot be read.
Timed ==
  LET marks(n) == {s \in [1..(2 * n) -> 0..Beats] : \A i \in 1..(2 * n - 1) : s[i] <= s[i + 1]}
      spans(s, n) == [k \in 1..n |-> [start |-> Beat * s[2 * k - 1], end |-> Beat * s[2 * k]]]
  IN {[spans |-> <<>>, length |-> Beat * b] : b \in 0..Beats}
       \cup UNION {{[spans |-> spans(s, n), length |-> Beat * s[2 * n]] : s \in marks(n)} : n \in 1..MaxWords}

\* NavoiyTTS and AishaTTS: estimate_word_timings, by the length of the words.
Estimated ==
  {[spans |-> IF b = 0 THEN <<>> ELSE Shared(q, 0, Beat * b), length |-> Beat * b] :
     b \in 0..Beats, q \in SeqUpTo(WordLengths, MaxWords) \ {<<>>}}

Speak ==
  /\ at = "script"
  /\ voice' \in Timed \cup Estimated
  /\ at' = "voice" /\ UNCHANGED <<words, scenes, film>>

\* words_to_subtitle_json: each word shown takes the time of the word spoken when they
\* are as many, or its share of the whole time.
Subtitle ==
  /\ at = "voice"
  /\ \E shown \in SeqUpTo(WordLengths, MaxWords) :
       LET n == Len(voice.spans)
           spans == IF n = 0 THEN <<>>
                    ELSE IF Len(shown) = n THEN voice.spans
                    ELSE Shared(shown, voice.spans[1].start, voice.spans[n].end)
       IN words' = [k \in DOMAIN spans |->
                      [start |-> spans[k].start, end |-> spans[k].end, len |-> shown[k]]]
  /\ at' = "words" /\ UNCHANGED <<voice, scenes, film>>

\* fit_scene_durations
Fitted(lengths, total) ==
  IF total <= 0 THEN lengths
  ELSE [i \in DOMAIN lengths |-> Rounded(lengths[i] * total, Sum(lengths))]

\* split_words_by_scenes: the scenes are walked through once, from word to word, to the
\* one the middle of the word falls into; what comes after the last bound stays in the last.
SceneOf(k, lengths) ==
  LET falls(w) == Min({i \in DOMAIN lengths :
                         i = Len(lengths) \/ w.start + w.end < 2 * SumTo(lengths, i)})
  IN Max({falls(words[j]) : j \in 1..k})

SplitWords(lengths) ==
  [i \in DOMAIN lengths |->
     LET own == {k \in DOMAIN words : SceneOf(k, lengths) = i}
     IN IF own = {} THEN <<>> ELSE SubSeq(words, Min(own), Max(own))]

\* asset_gen
LayScenes ==
  /\ at = "words"
  /\ \E asked \in SeqUpTo(SceneLengths, MaxScenes) \ {<<>>} :
       LET fit == Fitted(asked, IF voice.length > 0 THEN voice.length + TailTicks ELSE 0)
       IN scenes' = [lengths |-> fit, parts |-> SplitWords(fit)]
  /\ at' = "scenes" /\ UNCHANGED <<voice, words, film>>

\* (mutant) every scene is rounded by itself
SceneFramesAlone == [i \in DOMAIN scenes.lengths |-> Rounded(scenes.lengths[i], FrameTicks)]

\* sceneFrames
SceneFrames ==
  [i \in DOMAIN scenes.lengths |-> Rounded(SumTo(scenes.lengths, i), FrameTicks)
                                     - Rounded(SumTo(scenes.lengths, i - 1), FrameTicks)]

\* transitionList
TransitionList(frames, wanted) ==
  [i \in DOMAIN frames |->
     IF i = 1 THEN 0 ELSE Max({0, Min({wanted, frames[i] - 1, frames[i - 1] - 1})})]

\* Reel
CutFilm ==
  /\ at = "scenes"
  /\ \E wanted \in Transitions, hook, cta \in BOOLEAN :
       film' = [frames |-> SceneFrames, into |-> TransitionList(SceneFrames, wanted),
                hook |-> hook, cta |-> cta]
  /\ at' = "film" /\ UNCHANGED <<voice, words, scenes>>

TimingNext == Speak \/ Subtitle \/ LayScenes \/ CutFilm
TimingSpec == TimingInit /\ [][TimingNext]_timingVars

----------------------------------------------------------------------------

\* What the viewer sees of it.

TotalFrames == Max({1, Sum(film.frames)})
SceneStart(i) == SumTo(film.frames, i - 1)

\* sequenceFramesVar: a scene runs on under the transition that follows it.
SequenceFrames(i) == film.frames[i] + IF i < Len(film.frames) THEN film.into[i + 1] ELSE 0

CtaStart == TotalFrames - IF film.cta THEN Min({TotalFrames, CtaFrames}) ELSE 0

\* The windows planned for the hook and for a title, on the time line of the whole film; a
\* text whose window is too short is left out.
HookWindow ==
  LET end == Min({TextFrames, film.frames[1], IF film.cta THEN CtaStart - Margin ELSE TotalFrames})
  IN IF film.hook /\ end >= MinText THEN <<Margin - 1, end>> ELSE <<>>
TitleWindow(i) ==
  LET start == IF i = 1 THEN Margin ELSE Max({2, Rounded(film.into[i], 2)})
      fits == Min({TextFrames, film.frames[i]})
      end == IF film.cta THEN Min({fits, CtaStart - Margin - SceneStart(i)}) ELSE fits
  IN IF end - start >= MinText /\ (i > 1 \/ HookWindow = <<>>)
     THEN <<SceneStart(i) + start, SceneStart(i) + end>> ELSE <<>>

\* The frame from which a text is gone, that takes `fade' frames to leave: the hook is cut
\* by a sequence of its own, a title by the sequence of its scene only.
HookGone(fade) == Min({HookWindow[2] - Exit + fade, HookWindow[2] + 1})
TitleGone(i, fade) == Min({TitleWindow(i)[2] - Exit + fade, SceneStart(i) + SequenceFrames(i)})

Width(line) == Sum([k \in DOMAIN line |-> line[k].len]) + Len(line) - 1
PerLine == Max({1, (MaxChars + MaxLines - 1) \div MaxLines})

\* The rows greedily filled: a word starts a row when it does not go with the last one.
Filled(q, goes(_, _)) ==
  LET rows[k \in 0..Len(q)] ==
        IF k = 0 THEN <<>>
        ELSE LET row == IF k = 1 THEN <<>> ELSE rows[k - 1][Len(rows[k - 1])]
             IN IF k > 1 /\ goes(row, q[k])
                THEN [rows[k - 1] EXCEPT ![Len(rows[k - 1])] = Append(row, q[k])]
                ELSE Append(rows[k - 1], <<q[k]>>)
  IN rows[Len(q)]

WrapWords(q) == Filled(q, LAMBDA line, w : Width(Append(line, w)) <= PerLine)

\* pageWords
Joins(page, w) ==
  /\ Width(Append(page, w)) <= MaxChars
  /\ Len(WrapWords(Append(page, w))) <= MaxLines
  /\ w.start - page[Len(page)].end <= Gap

PageWords(q) ==
  LET groups == Filled(q, Joins)
      last(g) == Max({g[k].end : k \in DOMAIN g})
  IN [i \in DOMAIN groups |->
        [words |-> groups[i], start |-> groups[i][1].start,
         end |-> IF i < Len(groups) THEN Max({last(groups[i]), groups[i + 1][1].start})
                 ELSE last(groups[i]) + Hold]]

\* pageGroups: the pages of all scenes, each until the next one at the latest.
Pages ==
  LET all == FlattenSeq([i \in DOMAIN scenes.parts |-> PageWords(scenes.parts[i])])
  IN [i \in DOMAIN all |->
        IF i < Len(all) /\ all[i + 1].start < all[i].end
        THEN [all[i] EXCEPT !.end = Max({all[i].start, all[i + 1].start})] ELSE all[i]]

\* Every word that has a time of its own is on the one caption page that is seen at
\* each tick it is spoken, on a page that fits.
WordsAreSeen ==
  LET pages == Pages
      seen(t) == {i \in DOMAIN pages : pages[i].start <= t /\ t < pages[i].end}
  IN /\ \A k \in DOMAIN words : \A t \in words[k].start..(words[k].end - 1) :
          \E i \in DOMAIN pages : seen(t) = {i} /\ \E n \in DOMAIN pages[i].words : pages[i].words[n] = words[k]
     /\ \A i \in DOMAIN pages : Len(pages[i].words) > 1 =>
          Width(pages[i].words) <= MaxChars /\ Len(WrapWords(pages[i].words)) <= MaxLines

\* No word is lost or shown twice between the scenes, and, but for the last scene,
\* a word is in the scene whose frames run, within the roundings, at its middle.
WordsOverTheirScenes ==
  /\ FlattenSeq(scenes.parts) = words
  /\ \A i \in DOMAIN scenes.parts : \A k \in DOMAIN scenes.parts[i] :
       LET middle == scenes.parts[i][k].start + scenes.parts[i][k].end
       IN /\ 2 * SceneStart(i) * FrameTicks <= middle + FrameTicks
          /\ i < Len(film.frames) => middle < 2 * SceneStart(i + 1) * FrameTicks + FrameTicks

\* The film is as long as the voice and its tail, within the rounding of every scene
\* and of the last frame; transitions fit into both their scenes and take no time.
FilmLastsTheVoice ==
  LET ticks == TotalFrames * FrameTicks - (voice.length + TailTicks)
      all == [i \in DOMAIN film.frames |-> SequenceFrames(i)]
  IN /\ voice.length > 0 =>
          2 * ticks \in -(Len(film.frames) + FrameTicks)..(Len(film.frames) + FrameTicks)
     /\ Sum(all) - Sum(film.into) = Sum(film.frames)
     /\ \A i \in DOMAIN all :
          film.into[i] + (SequenceFrames(i) - film.frames[i]) <= SequenceFrames(i)

\* The windows of the texts never meet and end before the CTA card.  A text that takes
\* longer to leave than its window has left is seen past it: the hook never with another
\* text; a title with the next one only under the transition between them, and with either
\* it or the CTA card only while it leaves.
TextsTakeTurns ==
  LET titles == {i \in DOMAIN film.frames : TitleWindow(i) # <<>>}
      texts == ({HookWindow} \cup {TitleWindow(i) : i \in DOMAIN film.frames}) \ {<<>>}
  IN /\ \A x, y \in texts : x # y => x[2] <= y[1] \/ y[2] <= x[1]
     /\ film.cta => \A x \in texts : x[2] <= CtaStart - Margin
     /\ HookWindow # <<>> => \A fade \in Fades :
          /\ \A i \in titles : HookGone(fade) <= TitleWindow(i)[1]
          /\ film.cta => HookGone(fade) <= CtaStart - Margin + 1
     /\ \A i \in titles, fade \in Fades :
          /\ \A j \in titles : i < j =>
               /\ TitleGone(i, fade) - TitleWindow(j)[1] <= fade - Exit
               /\ TitleGone(i, fade) <= IF j = i + 1 THEN SceneStart(j) + film.into[j]
                                        ELSE TitleWindow(j)[1]
          /\ film.cta => TitleGone(i, fade) - (CtaStart - Margin) <= fade - Exit

\* What is seen follows what is heard: however the provider times its words, the text
\* shown differs from the text spoken, and lengths are rounded twice (to ticks by
\* asset_gen, to frames by the renderer), captions, scenes and texts keep to the voice.
VideoFollowsVoice ==
  at = "film" =>
    WordsAreSeen /\ WordsOverTheirScenes /\ FilmLastsTheVoice /\ TextsTakeTurns

=============================================================================
