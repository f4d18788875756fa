# zenraw in TLA+

A verification development of zenraw, a Rust library that decodes camera RAW
and DNG files.  It holds TLA+ modules translated from the source, TLC
configurations that check them on small instances, and theorems that TLAPS
proves for every value of the constants.

## The system

| component | source | state it keeps | operations | modules |
|---|---|---|---|---|
| native decode pipeline | `decode.rs`, `rawler_backend.rs`, `demosaic.rs`, `color.rs`, `orient.rs`, `alloc_util.rs` | the sample buffer, its dimensions, the phase under way | `decode` | `DecodePipeline` |
| phase sequence | `progress.rs` over the external `how_far` | the plan announced on the caller's pulse, a cursor, the outcome of each phase | `new`, `run`, `skip`, `complete` | `StagePlan`, `DecodePipeline` |
| geometry and limits | `decode.rs`, `rawler_backend.rs` | none | crop dimensions, crop windows, limits, axis swaps | `Geometry` |
| incremental session | `zencodec_impl.rs` (`RawIncremental`) | header cache, output estimate, pending request, published header | `new`, `step`, `requested`, `info` | `Incremental`, `Session` |
| native probe | `lib.rs`, `decode.rs`, `rawler_backend.rs` | none | `probe` | its result, in `DecodePipeline` and `Incremental` |
| zencodec adapter | `zencodec_impl.rs` | the job's configuration, limits, hint, tokens | `probe`, `output_info`, `decoder`, `decode` | `Adapter`, `Incremental` |
| orientation kernels | `orient.rs` | the buffer being permuted | eight maps in three forms | `Orientation`; extents in `DecodePipeline` |
| stop and pulse composition | `observation.rs` | none | `check`, `advance` | `Raise`/`Watch` actions |
| darktable runner | `darktable.rs` | counters, temporary directories, a child process | `decode_file`, `decode_bytes` | `Darktable` |
| byte inventory | `inventory/` | a captured stop reason, the box budget, the tracks and the packet of a CR3, the rules of a TIFF | `inventory` | `Inventory` |
| demosaic kernels | `demosaic.rs` | the image being filled, the loop and row under way | `demosaic_to_rgb_f32`, its observed form, the kernels below them | `Demosaic`; their loops as units in `DecodePipeline` |
| TIFF IFD reader | `tiff_ifd.rs` | the chain and the sub-directories read so far | `TiffStructure::parse`, look-ups by tag | `AppleMetadata` |
| format classification | `classify.rs` | none | `classify`, the probe for DNGVersion | `AppleMetadata` |
| XMP extraction | `xmp.rs` | where the packet search goes on | `extract_xmp`, the properties Apple's reader asks for | `AppleMetadata`; the packet of a CR3 in `Inventory` |
| Apple ProRAW and AMPF | `apple.rs` | what was extracted so far, the place of a marker walk | `extract_apple_metadata` and its extractors | `AppleMetadata` |
| EXIF reader | `exif.rs` | none | `extract_dng_preview`; `read_metadata` | the preview, in `AppleMetadata` |
| colour, tone, DNG rendering, SIMD | `color.rs`, `dng_render.rs`, `dt_sigmoid.rs`, `simd.rs` | none | pixel arithmetic | loops and totals only, in `DecodePipeline` |
| errors | `error.rs` | none | categories of errors | not modelled |

How they interact: a caller hands bytes, a configuration and a pulse to
`decode`, directly or through a zencodec job.  The job limits the input, probes
the header, and builds a one-shot decoder; an incremental session keeps a job
for its preflight probe and gives another to zencodec's whole-file helper, which
probes once more and in the end decodes everything through the one-shot decoder
into a row sink.  The one-shot decoder runs the native decode with the stored
orientation and turns the result itself, as the job's hint asks, through the
orientation kernels.  The darktable runner is a way of its own: it hands a file
to a child process and reads what that wrote.  A job's `inventory` maps
every byte of a file without decoding it: it walks the boxes, sections and
directories itself, with zenmeta, and asks the backend only whether it would
take the file.  The pulse is shared by all of them: the callee reports work on
it, and polls it for a stop request that another thread, or a progress callback
during a report, raises at any moment.

What is hard in it:

* a stop request races with the last batch of a phase, with its success, with
  the publication of a header or of rows; it may be one-shot (reported once and
  then gone);
* phases are announced once and settled from four code paths (two backends,
  Bayer and non-Bayer), and their totals are written apart from the loops that
  report against them;
* probe and decode compute the dimensions separately;
* limits are checked on the parts and must hold on the sum; request lengths
  saturate against four ceilings;
* an allocation may fail in the middle of a plan, gracefully or not;
* eight orientations exist in three implementations, some of them in place, and
  may be interrupted half way;
* `probe`, `output_info` and `decode` resolve an orientation hint separately;
* an inventory runs a dozen nested walks on one token, one budget and rules that
  are completed while it runs; sizes and offsets come from the file, and what it
  calls read must be what the backend reads;
* Malvar's method cuts an image into border and interior and computes them by
  two kernels that must agree where they meet, in four loops with bounds,
  totals and polls of their own;
* directories of a TIFF may be chained in a circle or shared; the picture index
  of a JPEG counts offsets from itself, its first picture's from the beginning;
  a marker walk advances by lengths the file claims; several XMP packets, some
  of them unreadable, may speak of one field;
* calls of the darktable runner overlap, its child may hang or outlive it, each
  of some ten operations may fail, and the process may crash and start again.

`PROJECT.json` lists these as hazards, each at its line and with the property
that would catch it going wrong.

## The modules

### StagePlan: what an operation promises its observer

The abstract specification.  Phases settle in plan order, one runs at a time, a
settled phase never changes, success needs every phase settled by work or by a
skip, and an operation that ends early marks the phases it never reached
`NotRun`, the one it died in `Cancelled` exactly when the error is a stop.
`how_far` is not part of the repository: the outcomes are those its callers in
`progress.rs` and `tests/pulse_progress.rs` rely on.

### Geometry: sizes

`CroppedDims`, `RawlerCroppedDims` (with `checked_add` at the width of usize,
`UsizeMax`), the windows `apply_crop` and `apply_rawler_crop` copy, and the two
limit checks, as pure operators.  Crop margins are assumed to add up without
overflow (rawloader's are far below usize::MAX).

### DecodePipeline: one native decode

| in the model | in the code |
|---|---|
| `input` | the file as the external parser presents it, and `RawDecodeConfig` |
| `pc`, `step` | the position in `decode_inner` / `decode_non_bayer` / `auto_develop_output` |
| `cursor`, `child`, `total`, `completed` | what `how_far::Stages` has been told |
| `pass`, `left` | the loop of the running phase and the units it has left |
| `img` | the sample vector's length and the width, height and orientation carried with it |
| `stop`, `raisedIn`, `late` | the caller's request, and when it was raised |

`step` is where the code believes it is, `cursor` where the plan is: they are
kept apart so that a forgotten skip is visible (`PlanAligned`).

A phase is `Enter` (it becomes Running), `OpenStopped`/`Open` (the poll on
entry; the total, the checks and allocations), then up to six passes cut in
batches (`BatchDone`, `BatchStopped`, `PacedStopped`, `PacedGoesOn`, `NextPass`)
and `Leave`/`LeaveBroken` (the poll on leaving).  `Skip` settles a phase without
work, `GapStopped`/`GapPasses` are the polls between phases, `Complete` is
`progress.complete`.  `Raise` may happen between any two steps.

Abstractions:

* pixel values are dropped; what a loop works off and reports is a number of
  units, and the samples the buffer holds are a length;
* the batch sizes of the code (2^16 pixels, 2^18 to 2^23 samples, 32 or 64
  rows) are one constant `Batch`, so that a pass takes several batches or less
  than one; the 256 rows between polls of the crop are `CheckRows`;
* two polls with no work between them are one;
* an allocation that fails inside a phase fails when the phase opens;
* the row check of the Malvar interior's last rows and the tail of the
  normalisation are batches like the others;
* a pulse that nobody observes follows the same control flow: the outcomes are
  then simply not seen;
* a failing or panicking parser is one outcome, `Malformed`, whatever the exact
  error it maps to;
* the guard `src_end <= rgb.len()` of `apply_rawler_crop` is left out; it
  always holds (theorem `CropsInBounds`).

### Session: what an incremental decode promises

The abstract specification: the header is published once and before any pixel,
rows reach the sink at most once and after the header, `Done` is last, and an
error is final.

### Incremental: RawIncremental, its helper and its driver

`Offer` is a driver that answers a request with a prefix of at least the length
asked for (or the whole source, whose end it then knows), `OfferStray` one that
offers a window elsewhere, up to the last 64-bit offset.  `Admit`, `Probe` and
`Leave` are the three parts of `step`, with its polls `EntryStopped`,
`ProbeStopped` (the poll inside the job's probe, before its cache is read) and
`LeaveStopped`.  The helper is external: it is modelled from the comment at
`zencodec_impl.rs:769` ("treats probe errors as incomplete headers"), from how
`step` uses it and from `tests/shared_contracts.rs`; once the source is complete
it returns the error.  `SinkFails` may follow `HelperBegins`.  Errors close the
session, which is what `erase_incremental` does around it.

Sizes are numbers; a source is its length, the length of its header, what the
probe makes of it and the size of its output.  U64 and isize are the constants
`U64Max` and `IsizeMax`, and saturation and checked addition are at these.

### Orientation: the kernels

A call of one of the three functions of `orient.rs`: `native`
(`apply_orientation_stop`), `pixels` (`apply_orientation_pixels`) or `bytes`
(`apply_orientation_bytes`).  `buf` maps each position of the buffer to the
position its pixel had in the source; `row` and `col` are the two nested loop
counters.  `Move` is one turn of the inner loop: a swap of the horizontal flip,
the half turn (where a row is a batch of 2^18 swaps) or the vertical flip, or
one pixel fetched by `remap`, `remap_pixels` or `remap_bytes`.  `RowDone` is the
end of a row with its report, `Paced` the poll after a paced report, `Finish`
and `FinishPoll` the end.  What EXIF means is stated apart from the code's index
maps, by the sides on which the first row and the first column belong (`Shown`).

Abstractions: the samples or bytes of one pixel move together; the row padding
of a `PixelSlice` is not there; `vec![]` in `remap` does not fail here (that it
aborts the process is part of `DecodePipeline`).

### Adapter: what a job announces and decodes

One job and one file; `probe`, `output_info` and a decode (`decoder` with
`RawDecoder::decode`) are called once each in any order, as a caller with clones
of one configuration would.

| in the model | in the code |
|---|---|
| `job` | the file's header, `RawDecodeConfig`, `OrientationHint`, `ResourceLimits` |
| `Header`, `ProbeNative` | `probe_inner`, `build_image_info` |
| `ReportForHint`, `OutputInfo`, `Resolved` | `report_probe_for_hint`, `output_info`, `resolve_orientation` |
| `Start`, `Probed`, `DecoderAdmits` | the checks of `decoder`, in their order |
| `Enter` to `Complete` | the plan "Decode RAW", "Output orientation" |
| `DecodeNative`, `Bake` | `crate::decode`, `apply_orientation_to_output_pulse`, each one action with the outcomes `DecodePipeline` and `Orientation` establish |
| `img.turned`, `img.tag` | how the pixels have been turned, and what is left to the viewer |

Orientations compose by what they do to the corners of a picture (`Then`, for
zenpixels' `Orientation::then`, which is external).  The crop is a size no larger than
the sensor's; `Geometry` has its arithmetic.  An allocation that aborts the process, the
resource estimate, and the XMP and bit depth attached to an `ImageInfo` are left
out; the probe cache is part of `Incremental`, the job's `inventory` is
`Inventory`.

### Demosaic: what each pixel is made of

One call of either entry: `plain` is `demosaic_to_rgb_f32`, which allocates
infallibly and has no observer, the other the pipeline's.

| in the model | in the code |
|---|---|
| `call` | size, filter array (`tile`), method |
| `stage`, `row` | which loop runs and its row: one loop for the bilinear, the generic and the small Malvar image; top, bottom, sides and interior otherwise |
| `rgb` | the image: each channel as the weights of the samples it was computed from (`taps`) over a divisor (`of`) |
| `visits` | how often each pixel was computed; not in the code |
| `pending` | the work a loop has not yet reported |

`Row` computes one row of a loop, `Paced` is the poll after a paced report,
`EndOfLoop` and `Finish` the end of a loop and the report of the rest, `Check`
the last poll.  The generic kernel stores a sample in the channel its colour's
number names, and the number is the array's: a fourth colour's sample lands in
the red of the next pixel (`Strays`, `AfterRow`), which is computed after it
except past the last pixel, where the index is out of bounds (`Overruns`) and
the call ends `panicked`.  Colours are numbered up to three (E); higher numbers
would be stored further on.  `Clamped` is where the border's kernels find their
samples, `Direct` where the interior's loop finds them by adding to an index.
Where `DecodePipeline` counts the units of these loops, this module says what they
compute; the values of samples, and the cut of negative sums to zero, are
dropped.  A weight is exact: Malvar's are sixteenths.

### AppleMetadata: one `extract_apple_metadata`

| in the model | in the code |
|---|---|
| `file` | what the readers can tell apart of the bytes: directories, JPEG markers, first bytes of JPEGs and pieces of XMP, by position |
| `current`, `ifds`, `sub_ifds`, `off` | the locals of `TiffStructure::parse` |
| `span`, `pos` | the slice and the position of the marker walks (`find_mpf_segment`, `jpeg_sof_dimensions`) |
| `from` | the offset of the packet search |
| `meta` | `AppleMetadata` |

`ReadDirectory`, `ReadSubIfd` and `NextDirectory` are the loops of `parse`;
`ReadTags` is every extractor that looks up tags (each parses anew and finds the
same, which is why the walk is there once).  `Walk`, `ReadIndex`, `ReadFrame`
and `WalkIsOver` are the marker walks, first for the picture index in the file
or in the preview, then for the frame header in the gain map.  `GainPacket`,
`GainBlock` and `ReadPacket` are the searches for XMP, `Answer` the last
question to the gain map's own.

Abstractions: numbers and their byte order; a tag's value is what the reader of
that tag returns; a piece of XMP is a begin, an end or a close mark, a block's
tag, a property or bytes that are not UTF-8.  The EXIF reader (rawler's or
kamadak's) is external: which strip, thumbnail and maker note it points to is
data of the file.  `TableFits` is the check of a gain table, `Lookup` and
`Following` where `apply` reads it; the interpolation is left out.

### Darktable: the external decoder

| in the model | in the code |
|---|---|
| `counter` | `COUNTER`, `BYTES_COUNTER` |
| `pid`, `Crash` | `std::process::id()`; a crash leaves directories and children, and the next process counts from zero |
| `outer`, `dir` | the directories of `decode_bytes` and of `decode_file` |
| `pc` | the position in `decode_bytes`, `decode_file`, `read_pfm_bounded` |
| `store` | the temporary directories on disk: whether the input is there, and the output with its writer and size |
| `child` | the darktable-cli processes and what each will write |
| `held`, `from` | the bytes of output read, and whose they are |

Threads step independently.  `Bail` is a return before the clean-up, `Fail` one
that goes through it; the errors are named after their causes.  A timeout may be
over whenever the clock is looked at (`Overdue`); the child may exit before it
is killed (`Kill`), and may leave a process behind that goes on writing
(`Write`).  The size check (`Stat`), the bounded read (`Read`) and the parse are
separate, and the file may grow between them.  `Images` is what darktable may
make of an input: a whole image, an invalid one, one whose header claims more
than the fixed cap of `parse_pfm`.

Abstractions: time is a choice; a file is its size and its writer, a size a few
units; `which` and the version query of `find_cli` are one outcome.

### Inventory: what every byte of a file is for

| in the model | in the code |
|---|---|
| `build` | which backend the crate was built with (`RAWLER`) |
| `reason` | `InventoryStop`: the reason the token gave first |
| `stack` | the `walk_box` calls in progress, each with its position, end, depth and track, and `cr3`'s own loop at the bottom |
| `budget`, `traks`, `rawTrak`, `cancelled`, `stopped`, `packetPlaced` | the fields of `Cr3` |
| `tiff` | the `place_tiff` call in progress: its role and range, and what its rules have learned |
| `widths` | `seen_tags`, whether a TIFF of a RAF had RafImageWidth |
| `parts`, `logicalEnd`, `gap` | the parts, the logical end, and what bytes between parts are called |

`Start` is the job's check of the token and the input limit, `Dispatch` the
choice of container.  `WalkBox` is the entry of one `walk_box` call: told to
stop (`Abandon`), no header (`BadHeader`) or a box (`ReadBox`), with what rawler
or rawloader does with it (`Parse`), the XMP packet, the sample tables of its
track, and the call that will list its children.  `EndOfBox` is the end of a
listing loop, with what the budget left out.  `MapSamples` hangs the samples of
each track under media data.  `RafHeader` to `RafRecords` are the sections of a
RAF.  `FirstWalk`, `SecondWalk`, `MakerNotes` and `PlaceTiff` are the passes of
`place_tiff`, in whichever of the three containers.  `Final` asks the token for
the last time, then `is_raw_file` and the backend (`container_check`).

Abstractions: a position is a unit, and a header takes one.  What the file holds
at a position is chosen when it is read: each walk reads a header once.  The
mdia and minf boxes are folded into trak, the sample tables of a track into one
box, which is read or not as a whole, and may hold any of `Tables`; what
`samples` makes of them is any of `Samples`.  zenmeta's directory walk is
external: it asks `RawRules::cancelled`, may run out of its budget, may fail to
parse the first directory, and finds a Sony ARW or not.  The inside of a TIFF is
one part; the tables of what each tag means to each backend are left out.
`emit_top` may refuse a report with too many parts.

## What TLC checks

| run | question |
|---|---|
| `decode` | `DecodePipeline`, every path, failure and crop of both backends: exact totals, stops heard and prompt, limits, probe and decode agree, the result fills its dimensions, every call returns, and the whole refines `StagePlan` |
| `sessions` | `Incremental`, limits around each boundary and stops at every poll: budgets and requests, admission of published headers, no refusal of an admissible source, stops heard, every session ends, and the whole refines `Session` |
| `adapter` | `Adapter`, every tag under every hint and every limit at its boundary: the three calls agree on size and orientation, nothing is turned twice, no picture is beyond the pixel and byte limits, nor a cropped one beyond those on width, height and memory, stops are heard, and the decoder's own plan refines `StagePlan` |
| `orient` | `Orientation`, every size up to 4 x 4, form and orientation, stopped anywhere: the picture is the one EXIF means, no pixel is lost or doubled at any moment |
| `demosaic` | `Demosaic`, every kernel on images up to and past its border cases, on Bayer, X-Trans and undescribed arrays and on two by two and larger ones of four colours: no sample outside the data is read, every pixel is computed once, a plain colour keeps its colour, no kernel moves the picture, and border and interior agree |
| `metadata` | `AppleMetadata`, directories that chain, share, circle and break off, JPEGs with every short order of markers, texts with packets whole, cut and unreadable: the chain is read, all of it and nothing else, a gain map is the picture the index means, with its own header and XMP, the first packet that speaks is believed, and every file is answered |
| `inventory` | `Inventory`, both backends, a stop at every question: parts nest and boxes do not overlap whatever sizes and tables they hold, what the budget or the depth leaves out is called unknown, the XMP packet is in the report once, nothing lies beyond the logical end, a stop ends the call with its first reason, and every call answers |
| `faults` | `Darktable`, one thread, two calls, a crash, every operation failing in turn: each call delivers its own child's output within the limits, leaves no child running, and returns |
| `pair` | `Darktable`, two threads, three calls, a crash, and children that cannot be waited for: directories are never shared, and every call removes its own |

The bounds.  `MCDecodePipeline` uses a 5 x 6 sensor with `Batch = 20`,
`CheckRows = 2`: the smallest sensor with a Malvar interior, odd on one side,
where a plane of samples takes five batches, rows less than one, and the crop
starts both on and off a polled row.  `UsizeMax = 10000` is small enough for
products and rectangle ends to overflow (a sensor 200 wide needs 14400 bytes; a
rectangle starts at 9999).  `MCIncremental` uses sources of up to 7 bytes,
headers of 1 or 4, limits of 0 and just below, at and above what is needed,
`IsizeMax = 6` (one source is longer), `MinPrefix = 2` (a header of 4 needs
several requests), `U64Max = 20` (one output is larger) and one stray window at
offset 1 or `U64Max`; a second one would meet no other state.  `MCAdapter` uses
a 4 x 3 sensor of which 3 x 2 remain, so that swapped axes, the crop and each
limit show, with the crop and without, and a probe cap between the two.  `MCOrientation` has sides that
are empty, single, odd and even, batches of 3 and a pace of 2, so that loops end
on and off a poll.  `MCDarktable`: two threads are enough for two calls to
collide, a third call for one of them to collide with a directory left by an
earlier one; files of up to 4 units pass a limit of 2 both before and after the
size check; one crash separates two processes, in both runs, so that `faults`
too has a call that finds what another process left and children that outlive
theirs.  `MCInventory`: in six
positions a CR3 has room for the smallest file with a raw image (moov, CCTP,
trak, its tables, and media data with a payload) and for every other tree of
boxes over the same kinds; the budget of 4 boxes and the depth of 2 both end
walks early; the packet at 3 to 5 lies inside, across and outside boxes; samples
lie inside, across and outside media data; RAF sections are absent, empty,
overlapping and cut, in every combination.  `MCDemosaic` has
every size from 0 x 0 to 6 x 6, 6 x 7 and 7 x 6, with an interior from 5 on;
7 x 7 has an interior with a pixel whose whole neighbourhood is interior.
X-Trans is as large as its window needs on one side; of two 3 x 3 arrays with a
fourth colour one ends rows with it and the other, in a 3 x 3 image, the image.
`Pace = 2` puts polls into every loop and between loops, and `UsizeMax = 130` makes the length of the
largest images' buffer (3 x 42 is 126, 3 x 49 is 147) one that fits or one that
does not.  `MCAppleMetadata`: three directories, each with every next
pointer from nowhere to beyond the last, whole or cut, and `MaxDirs = 2`, so
that a chain is shorter than, as long as and longer than the bound and circles
have one, two and three members; a JPEG has one sound or unsound piece before
the index, which may hide the index inside it, and one after, the second picture
up to three, and the index is exact, too large, too small, one off or zero; one
text holds two packets or their cuts, and the gain map two more and a block;
`MaxImageBytes = 12` separates the two mattes (4 + 9 bytes and 2 + 2 + 1),
`MaxEntries = 8` is above the one table's size (for the others there is
`LookupsAreInTheTable`).  `MaxJobs`, `MaxFile` and `MaxCrashes` appear in the
guards of `Start`, `Write` and `Crash` and in no operation of the code.  Threads
are symmetric in `pair`, which checks no liveness.

Runs that TLC finds violated, each on a statement of the repository:

| run | what the code does | what is said of it |
|---|---|---|
| `wb` | rawler's Develop path ignores `wb_override` (`rawler_backend.rs:503`) | "Only effective in Develop and Linear modes." (`decode.rs:255`) |
| `transient` | a one-shot stop reported to the helper's probe is taken for an incomplete header (`zencodec_impl.rs:477`) | "Resource and lifecycle errors must remain terminal" (`zencodec_impl.rs:770`) |
| `uncropped` | with the crop turned off a job's probe, `output_info` and limit checks still use the cropped size (`zencodec_impl.rs:485`) | "Report consistently with what `decode()` produces" (`zencodec_impl.rs:486`) |

More differences were read while modelling and have no run: a failing sidecar,
`dt_config` or input write returns before the clean-up (`darktable.rs:190`,
`356`; line 273 says "Clean up entire temp directory on ALL paths"), which the
run `faults` contains as `Bail`, and which is why `NothingLeftBehind` is checked
in `pair`, where only waiting fails; `create_dir_all` accepts a directory that
exists already, so that a process with the pid of a crashed one takes over its
directory (`darktable.rs:183`; line 177 says "unique temp directory per
invocation"), which is why the constant `PidReuse` is there and the theorem
about directories has it as a proviso; `copy_with_stop` and the orientation
copies allocate infallibly under `AllocPref::Fallible` too (`alloc_util.rs:178`;
line 56 says "the fallible (`try_reserve`) path everywhere"), which the runs of
`DecodePipeline` contain as the state `aborted`; the inventory's rules follow
Canon's KodakIFD (`inventory/mod.rs:197`) but walk again only for Sony (1066),
so they never know the make in time; `MAX_CR3_SAMPLES` is "per file"
(`inventory/mod.rs:2017`) and applied per track; rawler's non-Bayer path tags
`CameraRaw` output with the target's primaries (`rawler_backend.rs:897`;
README.md:50 says `Unknown`), rawloader's sets `is_dng = false`
(`decode.rs:939`), and rawler's Develop path reports `crop_rect: None` always
(`rawler_backend.rs:496`); the adapter declares that it enforces `max_memory`
(`zencodec_impl.rs:286`) and estimates the "output buffer size" (570), but from
the cropped size, also where the configuration turns the crop off: the `adapter`
run contains a limit of 36 bytes under which 72 are decoded, and
`NothingBeyondLimits` therefore asks for memory, width and height of cropped
pictures only (the sizes themselves differ in `uncropped`); and a quarter turn
that is baked exchanges the sides after width and height were checked as
stored, which is what the property says of them; the colours of an array are
copied unchecked (`rawler_backend.rs:291`), where `demosaic.rs:784` says
"Colors: 0=R, 1=G, 2=B" and `demosaic.rs:885` indexes with them: the run
`demosaic` contains the panic as a result, while `DecodePipeline` has no panic
of its own code and starts from arrays of three colours.

Fairness.  `DecodePipeline` assumes that the decoding thread keeps running and
that the external parser returns; nothing is assumed of `Raise`.  `Incremental`
assumes that a step, once entered, runs to its end and that the driver goes on
answering requests; nothing is assumed of stops or stray windows.  `Darktable`
assumes that threads keep running, that a timeout passes, and that a killed
process dies; a child that is left alone owes nothing, nor does an operation
that may fail have to.  `Inventory` assumes that its one thread keeps running
and that zenmeta's walks and the backend's check return.  `AppleMetadata` assumes
that a call runs to its end (`WF_vars(Next)`): it is one function on one thread
that waits for nothing, so that `Answers` says its loops end.  `Orientation`,
`Demosaic` and `Adapter` are checked for safety only.

Deadlock is checked in every run but `inventory`, where a call that has answered
is over (`Answers` says that it gets there); elsewhere what returned, ended or
has nothing left to do stutters explicitly.

## What is proved

Every invariant and every action property a run checks has a theorem, and only
the liveness properties have none (see "Only model-checked"); so has the type
invariant of every module but the two abstract ones.  The theorems hold for every value of the constants
that the named assumptions allow.

Some properties below are proved for every value of the constants and are not
run: a deeper property of the same module is, which fails with them.  They are
marked "no run".  That a row and a column are a position, and a position is one
row and column (`PositionInRange`, `PositionsDiffer`, `PositionHasAPlace`), is
stated in each module that uses it.

### DecodePipelineProofs

About windows, for every sensor size and every crop:

* `MarginWindowIsInside`, `RectWindowIsInside`: the window a crop copies lies
  inside the sensor, malformed margins and overflowing rectangles included;
* `RowsAreInBounds`: the range of samples of every row of a window that lies
  inside is a range of the buffer.

About the pipeline, for every set of inputs in `InputSpace`, every `Batch`,
`CheckRows`, `UsizeMax` and `ProbeCap` allowed by `PipelineAssumption` and
`UsizeAssumption`:

| theorem | property |
|---|---|
| `TypeCorrect` | `TypeOK` (no run) |
| `RunsItsPlan` | `PlanAligned` (no run) |
| `ReportsItsTotals` | `WorkIsExact` |
| `HearsStops`, `StopsPromptly` | `StopIsHeard`, `StopIsPrompt` |
| `KeepsLimits` | `NothingBeyondLimits` |
| `FillsTheBuffer`, `CropsInBounds` | `BufferMatchesDims`, `CropStaysInside` (no run) |
| `KeepsTheProbesWord` | `AgreesWithProbe` |
| `RefinesPlan` | `ImplementsPlan` |

The argument.  None of these is inductive alone.  The invariant `Inv` is the
conjunction of `TypeOK` with:

* `Position`: where the code is determines the cursor (equal to `step` before a
  phase settles, one past it in the gap) and the outcome of every phase before
  and after it; this is what makes a forgotten skip impossible and is the
  refinement mapping's content;
* `Outcome`: which error goes with which broken phase and verdict;
* `Heard` and `Prompt`: how a pending, reported or spent request relates to
  where the code is; `Prompt` allows one late batch and only where the next
  step polls;
* `Admitted`: past the parse the limits were checked;
* `Imaged`: the buffer's length, dimensions and orientation after each phase, as
  functions of the input;
* `Accounted`: units reported so far, plus what the running pass has left, plus
  the passes to come, make the announced total.

Every action has a step of its own in the proof of every part.  `ReportsItsTotals`
comes down to the arithmetic of `Announced` against `Work` for each phase and
mode; `KeepsTheProbesWord` and `FillsTheBuffer` to `Imaged` and the window
lemmas; `RefinesPlan` maps each action to one `StagePlan` action or a stutter by
`Position` and `Outcome`.

### IncrementalProofs

For sources, headers, outputs, limits, offered lengths and stray windows of
every size that `IncrementalAssumption` allows:

| theorem | property |
|---|---|
| `TypeCorrect` | `TypeOK` (no run) |
| `KeepsTheBudget` | `BudgetKept` |
| `NeverDenies` | `NeverDeniedInVain` |
| `HearsStops` | `StopIsHeard` |
| `KeepsTheContract` | `ImplementsSession` |

None of them is inductive: that a published header fits the memory beside its
input depends on what was checked three steps before, with which length, and on
whether the end of the source was known then.  The invariant `IInv` keeps these
facts:

* `KnownInv`: a window at the start is the driver's prefix, and a total, once
  given, is the source's length;
* `HeaderInv`: the estimate is nothing or the header's, and was admitted; with a
  header the source fits, beside its whole input if the end is known;
* `AdmittedInv`: what an open step or an answered one holds was admitted with
  the estimate as it is now, and an unanswered request is one that may be asked
  (`Askable`);
* `AskInv`: a step about to ask for more has not seen the end and asks for more
  than it holds;
* `FlowInv`, `SinkInv`: where a step is against what was published, and what the
  sink was given; these are the refinement mapping's content.

`CeilingIs` shows that the ceilings of a request, which saturate, allow exactly
the askable lengths; `AdmitSizeIs` and `FitsDownwards` that what is smaller than
something admitted is admitted.  `NeverDenies` turns on that: a driver that
offers what it was asked for holds no more than the source, with the byte past
its end that an unannounced end takes to find, and that fits.  `KeepsTheContract` maps each action to one of `Session` or
a stutter.

### AdapterProofs

For files, hints, limits and configurations of every kind:

| theorem | property |
|---|---|
| `TypeCorrect` | `TypeOK` (no run) |
| `AnnouncesTruly` | `AnnouncementsHold` |
| `ShowsWhatWasAsked` | `ShownAsAsked` |
| `StaysWithinTheLimits` | `NothingBeyondLimits` |
| `HearsStops` | `StopIsHeard` |
| `RefinesPlan` | `ImplementsPlan` |

The eight orientations are an exchange of axes followed by two mirrors
(`Moved`, `MovedAt`); they are closed under composition (`MovesCompose`,
`Composes`), differ in what they do to a corner (`FetchedDiffers`), and `Then`
is their composition (`ThenFetches`).  That is what `ShowsWhatWasAsked` needs
for `CorrectAndTransform`, where a tag and a wish are composed before the
pixels are turned.  `StaysWithinTheLimits` is about the picture: that turning
makes no pixels (`PicturesKeepTheirPixels`) and a crop none either
(`ProductsGrow`) carries what was checked of the sensor over to it.  The
invariant `AdapterInv` adds to the types:

* `Placed`: which of the two phases is settled at each place in the decoder, and
  how; the refinement mapping's content;
* `Answered`: what each call said, as a function of the job alone, so that two
  calls agree whatever was called between them;
* `Checked`: the checks that lie behind each place; a picture has all of them
  behind it, and is the native one or that one turned;
* `Heard`: a request that a call owes an answer is still pending at every place
  from which a poll follows.

### OrientationProofs

For sources of every size, every batch length and every pace:

| theorem | property |
|---|---|
| `SourceIsShown` | the code's index maps are the inverses of where EXIF shows each pixel |
| `TypeCorrect` | `TypeOK`: no index leaves its buffer (no run) |
| `ShowsThePicture` | `IsOriented` |
| `LosesNothing` | `NothingLost` |
| `ReportsEverything` | `ReportsAll` (no run) |

The invariant `OrientInv` says of each loop what it has done when its counters
stand at `row`, `col` (`Moved`): `CopiedUpTo`, `FlippedAcross`, `FlippedDown` or
`Reversed`, each a formula for the whole buffer.  One lemma shows that a turn of
the inner loop extends the formula (`BodyMoves`), one that the end of a row does
(`RowsEnd`), one that the formula of an unfinished loop already excludes a
doubled pixel (`NothingLostWhileMoving`), and one that the formula of a finished
loop is the oriented picture (`LoopsPlaceEveryPixel`).  They rest on positions
being unique: `PositionsDiffer` and `PositionHasAPlace`.  `Reporting` ties what
was reported to the rows done; the half turn's last batch is where that is
arithmetic.

### DemosaicProofs

For images and filter arrays of every size and every pace:

| theorem | property |
|---|---|
| `DirectIsClamped` | two rows and columns off the edge, the interior's indices are the clamped ones |
| `TypeCorrect` | `TypeOK`: no kernel reads outside the data |
| `ComputesEachPixelOnce` | `EveryPixelOnce` |
| `LoopsAgree` | `PathsAgree` |
| `KeepsColours` | `ColoursKept`, if every two by two tile is a mosaic (`Mosaics`); larger arrays may have a fourth colour anywhere |
| `KeepsCentre` | `Centred`, for every tile |
| `HearsStops` | `StopIsHeard` (no run) |

The invariant `IInv` adds to the types where the loops may be (`PlaceInv`) and
which pixels have been computed (`ImageInv`): `Turn` names for each pixel the
loop whose turn it is, and a pixel has been computed, once and as that loop
computes it, exactly when its turn or its row is over.  That the four loops
share out the image is `RowIsItsTurn`, what each of them covers `LoopShapes`;
with `DirectIsClamped` the two kernels agree, so that `ReturnedPixels` says what
every pixel of a returned image is: the generic site, the bilinear site, or the
clamped Malvar site, whichever loop computed it.

The last two theorems add up weights over samples.  The library's sum picks the
elements of a set in an order it does not tell and iterates over its subsets;
`AddsExists` shows that this iteration exists and `AddsAgree` that it is the same
on every set that holds the subset, each by a least counterexample;
`SubsetInduction` is the induction that remains, with the property given as the
set of the subsets that have it, since the provers cannot take an operator.
`SumTakes` says that any one element may be taken first, and from there `SumAdds`,
`SumScales`, `SumOfUnion`, `SumOfConstant` and `SumOfOpposites` follow.
`SumGathered` is the one the kernels need: at the edge several offsets of a
clamped kernel fall on one sample, whose weight is then a sum itself, and the
weights over samples add up to the weights over offsets.

* `ColoursKept`.  `KernelsWeighOne`: each of the four kernels weighs sixteen
  sixteenths, and so do its offsets on the colour it is for, so that the others
  cancel out.  `ColourIsCell`, `CellsAround` and
  `ColoursAround` read off a mosaic, by the parity of row and column, which
  colour each offset falls on, and `BesideIs` that the look to the left or right
  of a green site (`malvar_rb_at_green`) tells the two kinds of green apart at
  the edge too.  A mean or a sample keeps its colour because all it takes has
  it (`GenericKeeps`, `MeanKeeps`, `SiteKeeps`), a Malvar value because of its
  kernel (`WeightedKeeps`).
* `Centred`.  A kernel that weighs every offset as its opposite (`Balanced`) has
  its centre at the pixel (`EvenBalances`): the moments of opposites cancel.
  Off the edge no offset is clamped, so this holds of the samples as well.

`Mosaics` says of the calls that red and blue lie on one diagonal of a two by two
tile and green, or a fourth colour in place of a green, on the other.  That is
so of the four Bayer patterns of the code and its tests
(`demosaic.rs:943`) and of the cameras; it is a proviso since neither
`CallSpace` nor the code asks for it, and without it the property is false: of a
tile of reds only the kernels would take reds for green.  `MCDemosaic` assumes it
of its calls, so that TLC shows the proviso to hold of the instance.

### AppleMetadataProofs

For files of every shape and every bound:

| theorem | property |
|---|---|
| `TypeCorrect` | `TypeOK`: never more directories than allowed, and only such as are in the file (no run) |
| `ReadsTheChain` | `EveryDirectoryRead` |
| `FirstWordIsReported` | `FirstWordStands` |
| `TakesItsOwnGainMap` | `GainMapIsItsOwn` |
| `LookupsAreInTheTable` | every gain `apply` looks up in an accepted table is in it, in a place of its own |

The invariant `WalkInv` says that the directories read are the chain from the
first on, each the next of the one before, and that the sub-directories are what
they point to, as far as the pointers were followed.  Nothing but the chain is
read because every set that follows the pointers contains what was read.  That
all of it is read although only the number of steps is bounded, circles
included, is an argument about numbers: if a walk ends because the next
directory does not parse, what it read follows every pointer; if it ends at the
bound, either a directory was read twice, and then what was read is closed, or
`MaxDirs` different ones were, and a chain of no more has no others.

`WordInv` says that the packets before the place the search goes on from said
what is reported, the first of them that says anything (`Spoken`).  It holds of
a text whose packets do not overlap (`TextInOrder`); in another the search may
take the end of one packet for that of the one before it.

`PictureInv` has two loops.  A marker walk stands at a segment or at the end,
and every segment before that ends before it and is not what is looked for
(`Passed`); a packet search has passed only unreadable packets (`Unread`).  The
segments of a JPEG are defined apart from the walk, as the least set of markers
that contains the first and with a segment the one behind it, so that markers
inside a segment, a thumbnail's say, are none; the walk stays among them because
every such set contains what it has reached.  This holds of a JPEG without gaps
between its segments (`InOrder`); in another the code skips single bytes until
it meets a marker.  That the frame header found lies within the gain map's own
bytes is proved for every JPEG.

### DarktableProofs

For any number of threads, calls and crashes, provided a restarted process gets
a pid of its own (`PidReuse = FALSE`):

| theorem | property |
|---|---|
| `TypeCorrect` | `TypeOK` (no run) |
| `DirectoriesAreUnique` | `DirsAreDisjoint` |
| `DeliversOnlyItsOwn` | `DeliversItsOwn` |
| `AttendsItsChild` | `ChildIsAttended` |
| `LeavesNothing` | `NothingLeftBehind`, if directories are made, filled and removed without failure (`Tidy`) |

The invariant `NameInv` says that every name in use was issued from a counter,
so that a name just taken is new (`Issued`, `Apart`).  Without the proviso it
fails: a process whose pid a crashed one had counts from zero again, and the
directory exists.

`DataInv` says who wrote what: output in a directory is by a child that works
there (`StoreInv`), a child has the number of its call (`ChildInv`,
`NumberInv`), a call's directories exist with their input as long as its child
runs (`Placed`), its child is waited for or at its end (`Attended`), and what it
has read is its own child's (`Delivered`).  A child that outlives a crash, or
that could not be waited for, may go on writing; by `NameInv` it writes where
no other call reads.

`LeavesNothing` has a second proviso because the code does not keep it without
one: `Bail`, an early return between making a directory and running the child
(`darktable.rs:190`), leaves it behind, and so does a removal that fails.
`Tidy` lets the child fail to start, get lost or leave what nobody can read.

### InventoryProofs

For files, budgets and depths of every size and any set of box kinds:

| theorem | property |
|---|---|
| `TypeCorrect` | `TypeOK` (no run) |
| `StopsForGood` | `StopIsFinal` |
| `KeepsTheNesting` | `PartsNest` |
| `TellsWhatIsUnlisted` | `UnlistedIsUnknown` |
| `SurfacesThePacketOnce` | `PacketOnce` |
| `StaysWithinTheEnd` | `NothingBeyondTheEnd` |

The invariant `StopInv` says that no walk was cut short, and no cancel noted in
a TIFF or a box walk, but for a reason that is kept (`Heeded`), and that the
answer is the last thing the call gives (`Verdict`); `AskKeeps` is the lemma
about `should_stop` every step rests on.

`PlaceInv` is about the stack of box walks and the parts at once, since a part
is listed while the loops around it are under way:

* `Typed`, `Course`: what each walk may be in, and the TIFF under way is what
  its container says;
* `Loops`: each loop lists a box that the one around it has gone past, and has
  itself gone past everything it has listed; a new part therefore lies beyond
  every part of its loop, which makes `Nested` inductive;
* `Accounted`, `Reported`: a box that lists its contents is covered as far as
  its loop stands, and once that loop has ended as a whole, unless the walk was
  cut short, which the report then says;
* `Surfacing`: the XMP packet is among the parts exactly when it was placed, and
  the outermost loop has then gone past it;
* `Ending`: the logical end is where the outermost loop stands.

### Only model-checked

Liveness (`Terminates` of `DecodePipeline` and of `Incremental`,
`EveryCallReturns`, `Answers` of `AppleMetadata` and of `Inventory`) is outside
the prover's reach: it needs `ENABLED` and fairness.  It is checked on the
instances of the runs, with the fairness stated above.

## Not modelled, and why

Floating-point pixel arithmetic (colour matrices, tone curves, DNG rendering, the
sigmoid, SIMD variants) has no finite model that says anything; the loops and
totals a decode runs it in are modelled, and the weights of the demosaic kernels
are.  `read_metadata` and `read_xmp_metadata` copy fields out of what an external
parser or a look-up returns, and keep no state.  The error taxonomy is a table.  What each tag of each
maker means to a backend (`RawRules` and its callers, about 900 lines) is a
table too, asked by a directory walk that is zenmeta's.  rawloader, rawler, zencodec,
zenpixels, how_far and darktable-cli are external and appear by what their
callers handle.

## Plan

Done, in this order: `StagePlan`, `Geometry`, `DecodePipeline` with proofs;
`Session`, `Incremental`; `Darktable`; `Orientation` with proofs; `Adapter`;
`Inventory`; `Demosaic` with proofs; `AppleMetadata`; then the proofs about
`Incremental`, `Darktable`, `Inventory`, `AppleMetadata` and `Adapter`.

Next, in order of importance:

1. In `Inventory`, the choice of the raw directory (`pick_raw_ifd`,
   `rawler_keeps`), with the theorem that a strip is called pixels only for the
   directory the backend reads.
2. That `Adapter`'s two phases, `DecodeNative` and `Bake`, promise no more than
   `DecodePipeline` and `Orientation` do, as a refinement instead of a
   correspondence in this file.
