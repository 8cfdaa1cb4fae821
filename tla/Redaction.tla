------------------------------- MODULE Redaction -------------------------------
(***************************************************************************)
(* What a request makes of the redaction settings, and what redaction      *)
(* makes of a detection. resolve_profile merges the request's overrides    *)
(* over the instance's profile and lets through the modes the instance     *)
(* allows; apply falls back from the mode of a class to the mode of all.   *)
(* A detector's box goes through three roundings - to pixels of the        *)
(* working copy, to pixels of the image, and to the patch that is          *)
(* redacted, which is why the box is grown.                                *)
(*                                                                         *)
(* Both are functions of their input: a state is one input, and no step    *)
(* changes it. One axis of the box is enough, as they are treated alike.   *)
(***************************************************************************)
EXTENDS Integers

CONSTANTS
    Mode,       \* REDACT_MODES
    Odd,        \* a mode that none of them is
    Null,       \* null in a profile or a request
    Omitted,    \* no such key
    Side,       \* of the image, in pixels
    MaxSide,    \* of the working copy
    Expands,    \* how much a box grows, in hundredths
    Grain       \* bound: the detectors' floats are multiples of 1/Grain

ASSUME RedactionAssumption ==
    /\ "pixelate" \in Mode
    /\ Null # Omitted /\ Odd \notin Mode \union {Null, Omitted}
    /\ Null \notin Mode /\ Omitted \notin Mode
    /\ Null \notin [{"face", "plate"} -> Mode \union {Odd, Null, Omitted}]
    /\ MaxSide \in Nat \ {0} /\ Side \in Nat /\ MaxSide <= Side
    /\ Grain \in Nat \ {0} /\ Expands \subseteq Nat /\ Expands # {}

Class     == {"face", "plate"}
ModeGiven == Mode \union {Odd, Null, Omitted}
NoModes   == [c \in Class |-> Omitted]

\* redact.mode and redact.modes, of the instance or of a request.
Redact == [mode : ModeGiven, modes : [Class -> ModeGiven] \union {Null}]

-----------------------------------------------------------------------------
(* resolve_profile *)

Merged(under, over) == IF over = Omitted THEN under ELSE over

\* _deep_merge: objects are merged key by key, anything else takes over.
DeepMerge(base, overrides) ==
    [mode  |-> Merged(base.mode, overrides.mode),
     modes |-> IF overrides.modes = Null THEN Null
               ELSE IF base.modes = Null THEN overrides.modes
               ELSE [c \in Class |-> Merged(base.modes[c], overrides.modes[c])]]

\* "modes": null, {} and {"face": null} all mean none.
NoOverride(modes) ==
    IF modes = Null THEN NoModes
    ELSE [c \in Class |-> IF modes[c] = Null THEN Omitted ELSE modes[c]]

Normalised(merged) == [merged EXCEPT !.modes = NoOverride(@)]

\* Mutant: the gate looks at the mode of all alone.
ModeOfAll(redact) == {IF redact.mode = Omitted THEN "pixelate" ELSE redact.mode}

\* The mode of all, "pixelate" where the profile has none, and of each class.
ModesUsed(redact) ==
    {IF redact.mode = Omitted THEN "pixelate" ELSE redact.mode}
        \union {redact.modes[c] : c \in {k \in Class : redact.modes[k] # Omitted}}

Accepts(redact, allowed) == ModesUsed(redact) \subseteq allowed \intersect Mode

\* apply: what a detection of a class is redacted with.
ModeOf(c, redact) ==
    IF redact.modes[c] # Omitted THEN redact.modes[c]
    ELSE IF redact.mode = Omitted THEN "pixelate" ELSE redact.mode

-----------------------------------------------------------------------------
(* A box, on one axis; positions of the detector in 1/Grain pixels of the  *)
(* working copy.                                                           *)

Float == 0 .. MaxSide * Grain

\* detect: int() of the corner and of the size.
Detected(from, to) == [at |-> from \div Grain, size |-> (to - from) \div Grain]

\* run_detectors: back to the image's pixels.
ScaledBack(d) == [at |-> (d.at * Side) \div MaxSide, size |-> (d.size * Side) \div MaxSide]

\* Python's round() of n / 200: a half goes to the even neighbour.
Rounded(n) ==
    LET q == n \div 200  r == n % 200
    IN  IF r < 100 \/ (r = 100 /\ q % 2 = 0) THEN q ELSE q + 1

\* _expand_box: the box grows by `expand` of its size, half of it to each side.
\* In 1/200 of a pixel the growth to a side is size * expand.
Low(d, expand)  == LET n == Rounded(200 * d.at - d.size * expand)
                   IN  IF n < 0 THEN 0 ELSE n

\* Mutant: the growth is taken to be that of both sides.
HighHalf(d, expand) == LET n == Rounded(200 * (d.at + d.size) + (d.size * expand) \div 2)
                       IN  IF n > Side THEN Side ELSE n

High(d, expand) == LET n == Rounded(200 * (d.at + d.size) + d.size * expand)
                   IN  IF n > Side THEN Side ELSE n

-----------------------------------------------------------------------------

VARIABLES config, request, allowed, box, expand

redactionVars == <<config, request, allowed, box, expand>>

Boxes   == {b \in Float \X Float : b[1] < b[2]}
NoBox   == <<0, 0>>
Plain   == [mode |-> "pixelate", modes |-> NoModes]

\* An instance's profile is merged over the defaults, which have a mode.
Configured == {r \in Redact : r.mode # Omitted}

RedactionTypeOK ==
    /\ config \in Redact /\ request \in Redact /\ allowed \subseteq Mode
    /\ box \in Boxes \union {NoBox} /\ expand \in Expands

RedactionInit ==
    \/ /\ config \in Configured /\ request \in Redact
       /\ allowed \in (SUBSET Mode) \ {{}}
       /\ box = NoBox /\ expand = CHOOSE e \in Expands : TRUE
    \/ /\ config = Plain /\ request = Plain /\ allowed = Mode
       /\ box \in Boxes /\ expand \in Expands

Resolved == Normalised(DeepMerge(config, request))

-----------------------------------------------------------------------------

\* No detection of a request that is let through is redacted in a mode the
\* instance does not allow, whatever the profile and the request leave out or set
\* to null; and a request that asks for no override of a class in another way
\* resolves to the same profile, so to the same cache identity (resolve_profile:
\* "or the same intent would produce two cache identities").
ModesAreGated ==
    /\ Accepts(Resolved, allowed) => \A c \in Class : ModeOf(c, Resolved) \in allowed
    /\ \A c \in Class : request.modes # Null /\ request.modes[c] = Null =>
          LET omitting == [request EXCEPT !.modes[c] = Omitted] IN
          config.modes = Null \/ config.modes[c] \in {Null, Omitted} =>
              Normalised(DeepMerge(config, omitting)) = Resolved

\* What the detector saw lies within the patch to its last pixel, once its growth
\* is more than what the three roundings can take: two pixels of the working copy
\* and two and a half of the image (_expand_box: "Detectors crop tight; chins, hair
\* and plate borders leak otherwise"). Smaller boxes may lose a pixel or two, and
\* an ellipse covers less of the patch than the rectangle.
BoxesAreCovered ==
    LET seen == Detected(box[1], box[2])
        back == ScaledBack(seen)
    IN  back.size * expand * MaxSide >= 200 * 2 * Side + 500 * MaxSide =>
            /\ Low(back, expand) * MaxSide * Grain <= box[1] * Side
            /\ \/ High(back, expand) * MaxSide * Grain >= box[2] * Side
               \/ High(back, expand) = Side
=============================================================================
