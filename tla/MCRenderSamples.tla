--------------------------- MODULE MCRenderSamples --------------------------
(* RenderSamples with the formats that a header may announce.                *)
EXTENDS RenderSamples

Format(rate, depth, channels) ==
  [nSamplesPerSec |-> rate, wBitsPerSample |-> depth, nChannels |-> channels]

\* Stereo of the initial and of another rate, an unsupported depth, and two
\* whose bytes per sample, in a uint8_t, are 0.
StereoFormats ==
  {Format(44100, 16, 2), Format(48000, 16, 2), Format(44100, 24, 2), Format(44100, 4, 2),
   Format(44100, 2048, 2)}

MonoFormat == {Format(44100, 16, 1)}
=============================================================================
