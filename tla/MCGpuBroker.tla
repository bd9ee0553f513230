---------------------------- MODULE MCGpuBroker ----------------------------
(* Instances of GpuBroker for TLC: small cards, a few kinds of job. *)
EXTENDS GpuBroker

\* Sizes are in units of a few GB.  The configured owners of gpu.toml: a trader
\* that is critical, a renderer that can yield, a Blender that cannot.
Trader == [who |-> "trader", vram_mb |-> 3, priority |-> Critical,
           preemptible |-> FALSE, backend |-> "none"]
Osac == [who |-> "osac", vram_mb |-> 3, priority |-> Normal,
         preemptible |-> TRUE, backend |-> "none"]
Blender == [who |-> "blender", vram_mb |-> 2, priority |-> Low,
            preemptible |-> FALSE, backend |-> "none"]
Terrain == [who |-> "terrain", vram_mb |-> 2, priority |-> Opportunistic,
            preemptible |-> TRUE, backend |-> "none"]

Stream == [who |-> "stream", vram_mb |-> 2, priority |-> Critical,
           preemptible |-> TRUE, backend |-> "none"]

QueueJobs == {Trader, Osac, Blender}
ModeJobs == {Stream, Osac, Blender}
NoResidents == << >>
Nothing == [r \in {} |-> 0]

Quiet == [ollama_mb |-> 0, seen |-> Nothing, reading |-> FALSE, used_mb |-> 0, apps |-> {}]
QuietSamples == {Quiet}
GameSamples == {[Quiet EXCEPT !.reading = TRUE, !.apps = apps] : apps \in SUBSET App}
QueueButtons == {"priority", "cancel", "queue"}
ModeButtons == {"hold", "resume", "training"}

\* Programs that work with Ollama and with ComfyUI, and need each other's memory.
Chat == [who |-> "chat", vram_mb |-> 3, priority |-> Critical,
         preemptible |-> FALSE, backend |-> "ollama"]
Render == [who |-> "render", vram_mb |-> 2, priority |-> Normal,
           preemptible |-> TRUE, backend |-> "comfyui"]
MemoryJobs == {Chat, Render}
OneResident == <<"comfyui">>
Seen(present, busy) == [r \in {1} |-> [present |-> present, busy |-> busy]]
Round(ollama, present, busy, used) ==
  [ollama_mb |-> ollama, seen |-> Seen(present, busy),
   reading |-> TRUE, used_mb |-> used, apps |-> {}]
MemorySamples ==
  {Round(0, FALSE, FALSE, 1), Round(2, TRUE, FALSE, 6),
   Round(0, TRUE, FALSE, 6), Round(0, TRUE, FALSE, 3), Round(0, TRUE, TRUE, 6)}
MemoryButtons == {"unload", "free"}

\* Critical work that waits for a renderer.
ProgressJobs == {Trader, Osac}
ProgressButtons == {"cancel", "unload"}

IntruderSamples == {[Quiet EXCEPT !.reading = TRUE, !.used_mb = 4]}
QueueOnly == {"queue"}
Alert == [Trader EXCEPT !.who = "alert", !.vram_mb = 1]
InversionJobs == {Alert, Terrain, Osac, Blender}
HoldOnly == {"hold"}
=============================================================================
